---- MODULE Spec2Model ----
(***************************************************************************)
(* A model of the Texas Hold'em engine of src/poker_game.py: the hand      *)
(* evaluator, the betting round, the hand driver play_hand and the         *)
(* showdown, together with the side-pot partition the test suite calls.    *)
(*                                                                         *)
(* Chips are counted in units of one small blind.  A deck shuffle, a       *)
(* random.random() draw and a line typed at a prompt are choices the       *)
(* model makes with \E.                                                    *)
(***************************************************************************)
EXTENDS Integers, Sequences, FiniteSets, TLC

(***************************************************************************)
(* Parameters of PokerGame.__init__ and the bounds of the model.           *)
(***************************************************************************)
NumPlayers == 3
SmallBlind == 1
BigBlind == 2
StartingStack == 4
\* the largest number typed at the "How much to raise?" prompt
MaxRaiseInput == 2
\* hands played by the main loop (num_hands)
MaxHands == 2
\* distinct showdown values (category, tiebreaker) two best hands can take
MaxHandValue == 2

Players == 0 .. (NumPlayers - 1)

Min(a, b) == IF a < b THEN a ELSE b
Max(a, b) == IF a > b THEN a ELSE b

RECURSIVE SumOver(_, _)
SumOver(f, S) ==
    IF S = {} THEN 0
    ELSE LET x == CHOOSE y \in S : TRUE IN f[x] + SumOver(f, S \ {x})

VARIABLES
    stack,                        \* Player.stack
    total_bet_this_round,         \* Player.total_bet_this_round
    is_folded,                    \* Player.is_folded
    is_ai,                        \* Player.is_ai
    pot,                          \* PokerGame.pot
    current_bet,                  \* PokerGame.current_bet
    button,                       \* PokerGame.button
    hand_number,                  \* PokerGame.hand_number
    community_cards,              \* len(PokerGame.community_cards)
    stage,                        \* the argument of betting_round
    pc,                           \* where play_hand stands
    current_player_idx,           \* local of betting_round
    players_who_acted_this_level, \* local of betting_round
    contributed,                  \* history: chips each player put in this hand
    paid,                         \* history: chips determine_winner paid each player
    last_to_act,                  \* history: who acted last in this betting round, -1 if nobody
    hand,                         \* the cards given to evaluate_hand
    hand_info,                    \* what evaluate_hand returned for them
    other_hand,                   \* a second hand given to evaluate_hand
    other_info,                   \* what evaluate_hand returned for it
    hole_cards,                   \* first argument of find_best_hand
    community,                    \* second argument of find_best_hand
    best_hand,                    \* what find_best_hand returned
    players,                      \* the argument of create_side_pots
    side_pots,                    \* what create_side_pots returned
    opponent_cards,               \* the hole cards of the opponents in a trial
    trial,                        \* how the trial was classified
    num_opponents,                \* argument of calculate_win_probability
    num_simulations,              \* WinProbabilityCalculator.num_simulations
    wins,                         \* local of calculate_win_probability
    ties,                         \* local of calculate_win_probability
    losses,                       \* local of calculate_win_probability
    simulations_run,              \* iterations of the simulation loop so far
    deck_cards,                   \* Deck.cards
    num_cards,                    \* the argument of the last Deck.deal
    dealt_cards,                  \* what the last Deck.deal returned or raised
    dealt,                        \* history: the cards dealt from the deck so far
    shuffles,                     \* history: the calls of Deck.shuffle so far
    bot,                          \* PokerBot.type, a key of PokerBot.TYPES
    situation,                    \* to_call, player_stack, pot, position given to decide_action
    bot_equity,                   \* what _get_equity returned or raised
    decision,                     \* what decide_action returned or raised
    players_hole_cards,           \* Player.hole_cards of each player at a showdown
    winner_info,                  \* what determine_winner returned or raised
    ui,                           \* PokerUI: raise_amount, skip_to_player, the skip buttons, the last decision
    result                        \* what calculate_win_probability returned or raised

vars == << stack, total_bet_this_round, is_folded, is_ai, pot, current_bet,
           button, hand_number, community_cards, stage, pc,
           current_player_idx, players_who_acted_this_level,
           contributed, paid, last_to_act, hand, hand_info, other_hand, other_info,
           hole_cards, community, best_hand, players, side_pots,
           opponent_cards, trial, num_opponents, num_simulations,
           wins, ties, losses, simulations_run, deck_cards, num_cards,
           dealt_cards, dealt, shuffles, bot, situation, bot_equity, decision,
           players_hole_cards, winner_info, ui, result >>

gameVars == << stack, total_bet_this_round, is_folded, is_ai, pot, current_bet,
               button, hand_number, community_cards, stage, pc,
               current_player_idx, players_who_acted_this_level,
               contributed, paid, last_to_act >>

handVars == << hand, hand_info >>

compareVars == << other_hand, other_info >>

bestVars == << hole_cards, community, best_hand >>

potVars == << players, side_pots >>

trialVars == << opponent_cards, trial >>

calcVars == << num_opponents, num_simulations, wins, ties, losses,
              simulations_run, result >>

deckVars == << deck_cards, num_cards, dealt_cards, dealt, shuffles >>

botVars == << bot, situation, bot_equity, decision >>

showVars == << players_hole_cards, winner_info >>

uiVars == << ui >>

otherVars == << deckVars, botVars, showVars, uiVars >>

evalVars == << handVars, compareVars, bestVars, potVars, trialVars, calcVars,
              otherVars >>

(***************************************************************************)
(* Cards and the hand evaluator.  A card is its index in the order of      *)
(* Deck.__init__ (suit by suit, ranks '2' .. 'A' within a suit); tuples    *)
(* are sequences.                                                          *)
(***************************************************************************)
NumRanks == 13
NumSuits == 4

\* Card.RANKS.index(card.rank) and card.suit
RankOf(c) == c % NumRanks
SuitOf(c) == c \div NumRanks
CardOf(r, s) == s * NumRanks + r

\* the set of elements of a sequence
Range(s) == { s[i] : i \in 1 .. Len(s) }

\* sorted(xs, reverse=True) of a list of numbers
RECURSIVE InsertDesc(_, _)
InsertDesc(x, s) ==
    IF s = << >> THEN << x >>
    ELSE IF x >= Head(s) THEN << x >> \o s
    ELSE << Head(s) >> \o InsertDesc(x, Tail(s))

RECURSIVE SortedDesc(_)
SortedDesc(s) == IF s = << >> THEN << >> ELSE InsertDesc(Head(s), SortedDesc(Tail(s)))

\* sorted(xs)
Reverse(s) == [i \in 1 .. Len(s) |-> s[Len(s) + 1 - i]]
Sorted(s) == Reverse(SortedDesc(s))

\* the elements of a set of numbers in increasing order
RECURSIVE Ascending(_)
Ascending(S) ==
    IF S = {} THEN << >>
    ELSE LET least == CHOOSE x \in S : \A y \in S : x <= y
         IN  << least >> \o Ascending(S \ {least})

\* Python's tuple comparison a > b
RECURSIVE TupleGreater(_, _)
TupleGreater(a, b) ==
    IF a = << >> THEN FALSE
    ELSE IF b = << >> THEN TRUE
    ELSE IF Head(a) # Head(b) THEN Head(a) > Head(b)
    ELSE TupleGreater(Tail(a), Tail(b))

\* rank_counts of evaluate_hand
RankCounts(ranks) ==
    [r \in Range(ranks) |-> Cardinality({ i \in 1 .. Len(ranks) : ranks[i] = r })]

\* the ranks of sorted(rank_counts.items(), key=(count, rank), reverse=True)
RECURSIVE SortedByCount(_, _)
SortedByCount(rc, S) ==
    IF S = {} THEN << >>
    ELSE LET r == CHOOSE x \in S : \A y \in S :
                      \/ rc[x] > rc[y]
                      \/ rc[x] = rc[y] /\ x >= y
         IN  << r >> \o SortedByCount(rc, S \ {r})

\* is_straight without the test for five distinct ranks
IsStraightSpanOnly(ranks) ==
    LET sorted_ranks == Sorted(ranks)
    IN  sorted_ranks[Len(sorted_ranks)] - sorted_ranks[1] = 4

\* is_straight of evaluate_hand
IsStraight(ranks) ==
    LET sorted_ranks == Sorted(ranks)
    IN  /\ sorted_ranks[Len(sorted_ranks)] - sorted_ranks[1] = 4
        /\ Cardinality(Range(ranks)) = 5

\* is_wheel of evaluate_hand
IsWheel(ranks) == Sorted(ranks) = << 0, 1, 2, 3, 12 >>

\* the Royal Flush test looking for the Ace alone
IsRoyalAceOnly(ranks, is_flush) ==
    /\ IsStraight(ranks) \/ IsWheel(ranks)
    /\ is_flush
    /\ 12 \in Range(ranks)

\* the Royal Flush test of evaluate_hand
IsRoyal(ranks, is_flush) ==
    /\ IsStraight(ranks) \/ IsWheel(ranks)
    /\ is_flush
    /\ 12 \in Range(ranks) /\ 9 \in Range(ranks)

\* HandEvaluator.evaluate_hand
evaluate_hand(cards) ==
    LET ranks == [i \in 1 .. Len(cards) |-> RankOf(cards[i])]
        suits == [i \in 1 .. Len(cards) |-> SuitOf(cards[i])]
        rank_counts == RankCounts(ranks)
        tiebreaker == SortedByCount(rank_counts, DOMAIN rank_counts)
        counts == SortedDesc([i \in 1 .. Len(tiebreaker) |-> rank_counts[tiebreaker[i]]])
        is_flush == Cardinality(Range(suits)) = 1
        straight == IsStraight(ranks) \/ IsWheel(ranks)
        high == SortedDesc(ranks)
    IN  IF IsRoyal(ranks, is_flush)
            THEN [hand_type |-> "Royal Flush", tiebreaker |-> tiebreaker]
        ELSE IF straight /\ is_flush
            THEN [hand_type |-> "Straight Flush", tiebreaker |-> tiebreaker]
        ELSE IF counts = << 4, 1 >>
            THEN [hand_type |-> "Four of a Kind", tiebreaker |-> tiebreaker]
        ELSE IF counts = << 3, 2 >>
            THEN [hand_type |-> "Full House", tiebreaker |-> tiebreaker]
        ELSE IF is_flush
            THEN [hand_type |-> "Flush", tiebreaker |-> high]
        ELSE IF straight
            THEN [hand_type |-> "Straight", tiebreaker |-> tiebreaker]
        ELSE IF counts = << 3, 1, 1 >>
            THEN [hand_type |-> "Three of a Kind", tiebreaker |-> tiebreaker]
        ELSE IF counts = << 2, 2, 1 >>
            THEN [hand_type |-> "Two Pair", tiebreaker |-> tiebreaker]
        ELSE IF counts = << 2, 1, 1, 1 >>
            THEN [hand_type |-> "One Pair", tiebreaker |-> tiebreaker]
        ELSE [hand_type |-> "High Card", tiebreaker |-> high]

\* HandEvaluator.HAND_RANKS
HAND_RANKS(hand_type) ==
    CASE hand_type = "High Card" -> 1
      [] hand_type = "One Pair" -> 2
      [] hand_type = "Two Pair" -> 3
      [] hand_type = "Three of a Kind" -> 4
      [] hand_type = "Straight" -> 5
      [] hand_type = "Flush" -> 6
      [] hand_type = "Full House" -> 7
      [] hand_type = "Four of a Kind" -> 8
      [] hand_type = "Straight Flush" -> 9
      [] hand_type = "Royal Flush" -> 10

(***************************************************************************)
(* Helpers of the betting round.                                           *)
(***************************************************************************)
\* [p for p in self.players if not p.is_folded and p.stack > 0]
ActivePlayers(stk, fld) == { p \in Players : ~fld[p] /\ stk[p] > 0 }

\* [p for p in self.players if not p.is_folded]
ActiveUnfolded(fld) == { p \in Players : ~fld[p] }

\* first_to_act being the seat after the button on every street
FirstToActAfterButton(stg, btn) == (btn + 1) % NumPlayers

\* first_to_act of betting_round
FirstToAct(stg, btn) ==
    IF stg = "Pre-Flop" THEN (btn + 3) % NumPlayers ELSE (btn + 1) % NumPlayers

\* HAND_RANKS values find_best_hand can give ai_decision: with fewer than five
\* cards combinations(all_cards, 5) is empty, best_hand is None and the
\* strength is 1
HandStrengths(ncommunity) == IF 2 + ncommunity < 5 THEN {1} ELSE 1 .. 10

\* PokerGame.ai_decision; hand_strength is the category of the dealt cards
\* and rnd the outcome of the random.random() comparison
ai_decision(stk, to_call, hand_strength, rnd) ==
    IF to_call > stk THEN (IF rnd THEN "call" ELSE "fold")
    ELSE IF hand_strength >= 6 THEN (IF rnd THEN "raise" ELSE "call")
    ELSE IF hand_strength >= 4 THEN "call"
    ELSE IF hand_strength >= 2 THEN (IF to_call < BigBlind THEN "call" ELSE "fold")
    ELSE IF to_call > 0 THEN "fold" ELSE "check"

\* raise_amount of the raise branch: an AI raises by the big blind, a human
\* by the number typed (typed = -1: not a digit string, the big blind is used)
RaiseAmount(ai, stk, to_call, typed) ==
    IF ai THEN Min(BigBlind, stk)
    ELSE Min(IF typed >= 0 THEN typed ELSE BigBlind, stk - to_call)

\* bet_amount of the call and raise branches: the chips moved from the stack
BetAmount(action, ai, stk, to_call, typed) ==
    IF action = "call" THEN (IF to_call > 0 THEN Min(to_call, stk) ELSE 0)
    ELSE IF action = "raise"
         THEN Min(to_call + RaiseAmount(ai, stk, to_call, typed), stk)
    ELSE 0

\* self.current_bet after the action of a player whose new total is newbet
NewCurrentBet(action, to_call, cur, newbet) ==
    IF action = "call" THEN (IF to_call > 0 THEN Max(cur, newbet) ELSE cur)
    ELSE IF action = "raise" THEN newbet
    ELSE cur

\* players_who_acted_this_level after the action (the raise resets it)
NewActed(action, p, acted) ==
    IF action = "raise" THEN {p} ELSE acted

\* the break conditions at the end of one iteration of the while loop
RoundComplete(stk, bets, fld, cur, acted) ==
    \/ Cardinality(ActivePlayers(stk, fld)) <= 1
    \/ Cardinality(ActiveUnfolded(fld)) <= 1
    \/ /\ ActiveUnfolded(fld) \subseteq acted
       /\ \A p \in ActiveUnfolded(fld) : bets[p] = cur

(***************************************************************************)
(* One iteration of the while loop of betting_round.                       *)
(***************************************************************************)
\* the skip test taking a player without chips for one who can act
CannotActFoldedOnly(p) == is_folded[p]

\* player.is_folded or player.stack == 0
CannotAct(p) == is_folded[p] \/ stack[p] = 0

\* the player at current_player_idx is folded or has no chips: continue
SkipPlayer ==
    /\ pc = "betting"
    /\ CannotAct(current_player_idx)
    /\ current_player_idx' = (current_player_idx + 1) % NumPlayers
    /\ UNCHANGED << stack, total_bet_this_round, is_folded, is_ai, pot,
                    current_bet, button, hand_number, community_cards, stage,
                    pc, players_who_acted_this_level, contributed, paid,
                    last_to_act, evalVars >>

\* the action branches, the acted set and the completion test of one turn
GameTurn(p, action, typed) ==
    LET to_call == current_bet - total_bet_this_round[p]
        amt     == BetAmount(action, is_ai[p], stack[p], to_call, typed)
        nstack  == [stack EXCEPT ![p] = @ - amt]
        nbets   == [total_bet_this_round EXCEPT ![p] = @ + amt]
        nfold   == [is_folded EXCEPT ![p] = @ \/ (action = "fold")]
        ncur    == NewCurrentBet(action, to_call, current_bet, nbets[p])
        nacted  == NewActed(action, p, players_who_acted_this_level) \cup {p}
    IN  /\ stack' = nstack
        /\ total_bet_this_round' = nbets
        /\ is_folded' = nfold
        /\ pot' = pot + amt
        /\ current_bet' = ncur
        /\ players_who_acted_this_level' = nacted
        /\ contributed' = [contributed EXCEPT ![p] = @ + amt]
        /\ last_to_act' = p
        /\ IF RoundComplete(nstack, nbets, nfold, ncur, nacted)
           THEN pc' = "settled" /\ current_player_idx' = current_player_idx
           ELSE pc' = "betting"
                /\ current_player_idx' = (current_player_idx + 1) % NumPlayers
        /\ UNCHANGED << is_ai, button, hand_number, community_cards, stage, paid >>

TakeTurn(p, action, typed) == GameTurn(p, action, typed) /\ UNCHANGED evalVars

\* an AI player's turn: check when nothing is owed, else ai_decision
AiTurn ==
    /\ pc = "betting"
    /\ ~CannotAct(current_player_idx)
    /\ is_ai[current_player_idx]
    /\ LET p == current_player_idx
           to_call == current_bet - total_bet_this_round[p]
       IN  IF to_call = 0
           THEN TakeTurn(p, "check", -1)
           ELSE \E hs \in HandStrengths(community_cards), rnd \in BOOLEAN :
                    TakeTurn(p, ai_decision(stack[p], to_call, hs, rnd), -1)

\* a human player's turn: whatever is typed at the prompts
HumanTurn ==
    /\ pc = "betting"
    /\ ~CannotAct(current_player_idx)
    /\ ~is_ai[current_player_idx]
    /\ \E action \in {"fold", "check", "call", "raise", "other"},
          typed \in -1 .. MaxRaiseInput :
            /\ (action # "raise" => typed = -1)
            /\ TakeTurn(current_player_idx, action, typed)

(***************************************************************************)
(* play_hand: the blinds, the four streets and the showdown.               *)
(***************************************************************************)
Zero == [p \in Players |-> 0]

\* PokerGame.post_blinds: the stacks, bets and pot after both blinds
SmallBlindPlayer(btn) == (btn + 1) % NumPlayers
BigBlindPlayer(btn) == (btn + 2) % NumPlayers

post_blinds(stk, btn) ==
    LET sbp == SmallBlindPlayer(btn)
        bbp == BigBlindPlayer(btn)
        sb_amount == Min(SmallBlind, stk[sbp])
        stk1 == [stk EXCEPT ![sbp] = @ - sb_amount]
        bet1 == [Zero EXCEPT ![sbp] = sb_amount]
        bb_amount == Min(BigBlind, stk1[bbp])
        stk2 == [stk1 EXCEPT ![bbp] = @ - bb_amount]
        bet2 == [bet1 EXCEPT ![bbp] = bb_amount]
    IN  [stack |-> stk2, bets |-> bet2, added |-> sb_amount + bb_amount]

\* the entry of betting_round: return at once with at most one player who
\* can act, else start the loop at first_to_act with nobody having acted
EnterRound(stg, stk, fld, btn) ==
    /\ players_who_acted_this_level' = {}
    /\ last_to_act' = -1
    /\ IF Cardinality(ActivePlayers(stk, fld)) <= 1
       THEN pc' = "settled" /\ current_player_idx' = FirstToAct(stg, btn)
       ELSE pc' = "betting" /\ current_player_idx' = FirstToAct(stg, btn)

\* play_hand up to the first turn of the Pre-Flop betting round
StartHand ==
    /\ pc = "idle"
    /\ hand_number < MaxHands
    /\ hand_number' = hand_number + 1
    /\ LET b == post_blinds(stack, button)
           nofold == [p \in Players |-> FALSE]
       IN  /\ stack' = b.stack
           /\ total_bet_this_round' = b.bets
           /\ contributed' = b.bets
           /\ pot' = pot + b.added
           /\ is_folded' = nofold
           /\ current_bet' = BigBlind
           /\ community_cards' = 0
           /\ stage' = "Pre-Flop"
           /\ paid' = Zero
           /\ EnterRound("Pre-Flop", b.stack, nofold, button)
    /\ UNCHANGED << is_ai, button, evalVars >>

\* the winners loop of determine_winner over the non-folded players in seat
\* order; value[p] stands for (hand_rank, tiebreaker) of p's best hand
RECURSIVE WinnersFrom(_, _, _, _)
WinnersFrom(i, value, fld, acc) ==
    IF i = NumPlayers THEN acc.winners
    ELSE IF fld[i] THEN WinnersFrom(i + 1, value, fld, acc)
    ELSE IF value[i] > acc.best
         THEN WinnersFrom(i + 1, value, fld, [best |-> value[i], winners |-> << i >>])
    ELSE IF value[i] = acc.best
         THEN WinnersFrom(i + 1, value, fld,
                          [best |-> acc.best, winners |-> Append(acc.winners, i)])
    ELSE WinnersFrom(i + 1, value, fld, acc)

Winners(value, fld) == WinnersFrom(0, value, fld, [best |-> 0, winners |-> << >>])

\* the amount determine_winner adds to each stack
Payout(value, fld, thepot) ==
    LET active == ActiveUnfolded(fld)
        w == Winners(value, fld)
    IN  IF Cardinality(active) = 1
        THEN [p \in Players |-> IF p \in active THEN thepot ELSE 0]
        ELSE IF Len(w) = 1
        THEN [p \in Players |-> IF p = w[1] THEN thepot ELSE 0]
        ELSE [p \in Players |->
                 IF \E i \in 1 .. Len(w) : w[i] = p
                 THEN (thepot \div Len(w)) + (IF p = w[1] THEN 1 ELSE 0)
                 ELSE 0]

\* the button staying where it is
SameButton(btn) == btn

\* self.button after a hand
NextButton(btn) == (btn + 1) % NumPlayers

\* determine_winner, then the button moves and the pot is emptied; the hand
\* of a folded player is not evaluated, its value is immaterial
EndHand ==
    \E value \in { v \in [Players -> 1 .. MaxHandValue] :
                      \A p \in Players : is_folded[p] => v[p] = 1 } :
        LET pay == Payout(value, is_folded, pot)
        IN  /\ stack' = [p \in Players |-> stack[p] + pay[p]]
            /\ paid' = pay
            /\ button' = NextButton(button)
            /\ pot' = 0
            /\ pc' = "idle"
            /\ UNCHANGED << total_bet_this_round, is_folded, is_ai, current_bet,
                            hand_number, community_cards, stage,
                            current_player_idx, players_who_acted_this_level,
                            contributed, last_to_act, evalVars >>

NextStage(stg) ==
    IF stg = "Pre-Flop" THEN "Flop" ELSE IF stg = "Flop" THEN "Turn" ELSE "River"

NextCommunity(stg) == IF stg = "Pre-Flop" THEN 3 ELSE community_cards + 1

\* a reset that leaves current_bet as it is
reset_player_bets_only ==
    [total_bet_this_round |-> Zero, current_bet |-> current_bet]

\* PokerGame.reset_round_bets
reset_round_bets == [total_bet_this_round |-> Zero, current_bet |-> 0]

\* reset_round_bets, the next community cards and the next betting round
NextStreet ==
    /\ total_bet_this_round' = reset_round_bets.total_bet_this_round
    /\ current_bet' = reset_round_bets.current_bet
    /\ community_cards' = NextCommunity(stage)
    /\ stage' = NextStage(stage)
    /\ EnterRound(NextStage(stage), stack, is_folded, button)
    /\ UNCHANGED << stack, is_folded, is_ai, pot, button, hand_number,
                    contributed, paid, evalVars >>

\* play_hand after a betting round has returned
AfterRound ==
    /\ pc = "settled"
    /\ IF stage = "River" \/ Cardinality(ActiveUnfolded(is_folded)) = 1
       THEN EndHand
       ELSE NextStreet

(***************************************************************************)
(* The game: PokerGame(num_players, starting_stack, small_blind, big_blind)*)
(* with any of its players human (Player.is_ai; the __main__ block makes   *)
(* player 0 human), then play_hand MaxHands times.                         *)
(***************************************************************************)
NoHand ==
    /\ hand = << >>
    /\ hand_info = << >>

NoCompare ==
    /\ other_hand = << >>
    /\ other_info = << >>

NoBest ==
    /\ hole_cards = << >>
    /\ community = << >>
    /\ best_hand = << >>

NotReturned == [returned |-> FALSE, pots |-> << >>]

NoPots ==
    /\ players = << >>
    /\ side_pots = NotReturned

NotClassified == [classified |-> FALSE]

NoTrial ==
    /\ opponent_cards = << >>
    /\ trial = NotClassified

NotCalled == [status |-> "not called"]

NoCalc ==
    /\ num_opponents = 0
    /\ num_simulations = 0
    /\ wins = 0
    /\ ties = 0
    /\ losses = 0
    /\ simulations_run = 0
    /\ result = NotCalled

NotDealt == [status |-> "not called"]

NoDeck ==
    /\ deck_cards = << >>
    /\ num_cards = 0
    /\ dealt_cards = NotDealt
    /\ dealt = << >>
    /\ shuffles = 0

NoBot ==
    /\ bot = "None"
    /\ situation = [to_call |-> 0, player_stack |-> 0, pot |-> 0, position |-> ""]
    /\ bot_equity = NotDealt
    /\ decision = NotDealt

NoShow ==
    /\ players_hole_cards = << >>
    /\ winner_info = NotDealt

\* no decision taken yet
NoDecision == [player |-> -1, action |-> "", typed |-> -1]

\* PokerUI.__init__
NoUi ==
    ui = [raise_amount |-> 0, skip_to_player |-> FALSE, skip_buttons |-> FALSE,
          decision |-> NoDecision]

NoOther == NoDeck /\ NoBot /\ NoShow /\ NoUi

NoEval ==
    NoHand /\ NoCompare /\ NoBest /\ NoPots /\ NoTrial /\ NoCalc /\ NoOther

NewGame ==
    /\ stack = [p \in Players |-> StartingStack]
    /\ total_bet_this_round = Zero
    /\ is_folded = [p \in Players |-> FALSE]
    /\ pot = 0
    /\ current_bet = 0
    /\ button = 0
    /\ hand_number = 0
    /\ community_cards = 0
    /\ stage = "Pre-Flop"
    /\ pc = "idle"
    /\ current_player_idx = 0
    /\ players_who_acted_this_level = {}
    /\ contributed = Zero
    /\ paid = Zero
    /\ last_to_act = -1

Init ==
    /\ NewGame
    /\ is_ai \in [Players -> BOOLEAN]
    /\ NoEval

Next == StartHand \/ SkipPlayer \/ AiTurn \/ HumanTurn \/ AfterRound

Spec == Init /\ [][Next]_vars

\* the program keeps running: the loop of betting_round goes on to its next
\* iteration, a player who is asked answers, play_hand goes on after a round
FairSpec == Spec /\ WF_vars(Next)

(***************************************************************************)
(* evaluate_hand applied to every five-card hand of the 52-card deck, up   *)
(* to a renaming of the suits: the hands are listed by rank, and a suit    *)
(* that has not occurred earlier in the list is the next unused one.       *)
(***************************************************************************)
Deck == 0 .. (NumRanks * NumSuits - 1)

\* the largest suit among the cards of h
MaxSuit(h) == CHOOSE m \in { SuitOf(h[i]) : i \in 1 .. Len(h) } :
                  \A i \in 1 .. Len(h) : SuitOf(h[i]) <= m

\* the cards that may follow the last card of h
NextCards(h) ==
    LET last == h[Len(h)]
    IN  { c \in Deck :
            /\ \/ RankOf(c) > RankOf(last)
               \/ RankOf(c) = RankOf(last) /\ SuitOf(c) > SuitOf(last)
            /\ SuitOf(c) <= MaxSuit(h) + 1 }

\* hand is one of the five-card hands
FiveCardHand ==
    \E r \in 0 .. (NumRanks - 1) :
    \E c2 \in NextCards(<< CardOf(r, 0) >>) :
    \E c3 \in NextCards(<< CardOf(r, 0), c2 >>) :
    \E c4 \in NextCards(<< CardOf(r, 0), c2, c3 >>) :
    \E c5 \in NextCards(<< CardOf(r, 0), c2, c3, c4 >>) :
        hand = << CardOf(r, 0), c2, c3, c4, c5 >>

EvaluateHand ==
    /\ Len(hand) = 5
    /\ hand_info = << >>
    /\ hand_info' = evaluate_hand(hand)
    /\ UNCHANGED << hand, compareVars, bestVars, potVars, trialVars, calcVars,
                    gameVars,
                    otherVars >>

\* a game of AI players in which no hand has been started
IdleGame ==
    /\ NewGame
    /\ is_ai = [p \in Players |-> TRUE]

InitEval ==
    /\ IdleGame
    /\ FiveCardHand
    /\ hand_info = << >>
    /\ NoCompare /\ NoBest /\ NoPots /\ NoTrial /\ NoCalc /\ NoOther

SpecEval == InitEval /\ [][EvaluateHand]_vars

(***************************************************************************)
(* Two hands evaluated and compared as determine_winner compares the hands *)
(* of two players.  The hands are drawn from the cards of rank below       *)
(* LowRanks and the Aces, in CompareSuits suits.                           *)
(***************************************************************************)
LowRanks == 5
CompareSuits == 2

CompareDeck ==
    { c \in Deck : /\ RankOf(c) < LowRanks \/ RankOf(c) = NumRanks - 1
                   /\ SuitOf(c) < CompareSuits }

\* the cards of CompareDeck above c
Above(c) == { d \in CompareDeck : d > c }

\* hand and other_hand are five-card hands of CompareDeck, the one with the
\* lower first card taken as hand
TwoHands ==
    \E a1 \in CompareDeck : \E a2 \in Above(a1) : \E a3 \in Above(a2) :
    \E a4 \in Above(a3) : \E a5 \in Above(a4) :
    \E b1 \in Above(a1) \cup {a1} : \E b2 \in Above(b1) : \E b3 \in Above(b2) :
    \E b4 \in Above(b3) : \E b5 \in Above(b4) :
        /\ hand = << a1, a2, a3, a4, a5 >>
        /\ other_hand = << b1, b2, b3, b4, b5 >>

\* the evaluate_hand calls of determine_winner for two players
CompareHands ==
    /\ Len(hand) = 5 /\ Len(other_hand) = 5
    /\ hand_info = << >> /\ other_info = << >>
    /\ hand_info' = evaluate_hand(hand)
    /\ other_info' = evaluate_hand(other_hand)
    /\ UNCHANGED << hand, other_hand, bestVars, potVars, trialVars, calcVars,
                    gameVars,
                    otherVars >>

InitCompare ==
    /\ IdleGame
    /\ TwoHands
    /\ hand_info = << >> /\ other_info = << >>
    /\ NoBest /\ NoPots /\ NoTrial /\ NoCalc /\ NoOther

SpecCompare == InitCompare /\ [][CompareHands]_vars

(***************************************************************************)
(* find_best_hand on two hole cards and three to five community cards      *)
(* drawn from the TopRanks highest ranks in half of the suits.             *)
(***************************************************************************)
TopRanks == 5
BestSuits == NumSuits \div 2

\* the index tuples of itertools.combinations(range(lo, n + 1), k), in the
\* order itertools yields them
RECURSIVE Combinations(_, _, _)
Combinations(lo, n, k) ==
    IF k = 0 THEN << << >> >>
    ELSE IF n - lo + 1 < k THEN << >>
    ELSE LET with_lo == Combinations(lo + 1, n, k - 1)
         IN  [i \in 1 .. Len(with_lo) |-> << lo >> \o with_lo[i]]
             \o Combinations(lo + 1, n, k)

\* two hole cards and five community cards at most
MaxCards == 7

\* combinations(all_cards, 5) as index tuples, by len(all_cards)
CombinationsOf5 == [n \in 0 .. MaxCards |-> Combinations(1, n, 5)]

\* the test that replaces the best combination so far, ignoring tiebreakers
BetterByRankOnly(rank_value, tiebreaker, best_rank, best_tiebreaker) ==
    rank_value > best_rank

\* the test of find_best_hand that replaces the best combination so far
Better(rank_value, tiebreaker, best_rank, best_tiebreaker) ==
    \/ rank_value > best_rank
    \/ rank_value = best_rank /\ TupleGreater(tiebreaker, best_tiebreaker)

\* Python's None
None == [hand_type |-> "None", cards |-> << >>]

\* the loop of find_best_hand from the i-th combination on
RECURSIVE BestFrom(_, _, _, _, _, _)
BestFrom(all_cards, combos, i, best_hand_, best_rank, best_tiebreaker) ==
    IF i > Len(combos) THEN best_hand_
    ELSE LET combo == [j \in 1 .. 5 |-> all_cards[combos[i][j]]]
             info == evaluate_hand(combo)
             rank_value == HAND_RANKS(info.hand_type)
         IN  IF Better(rank_value, info.tiebreaker, best_rank, best_tiebreaker)
             THEN BestFrom(all_cards, combos, i + 1,
                           [hand_type |-> info.hand_type, cards |-> combo],
                           rank_value, info.tiebreaker)
             ELSE BestFrom(all_cards, combos, i + 1,
                           best_hand_, best_rank, best_tiebreaker)

\* HandEvaluator.find_best_hand
find_best_hand(hole, community_) ==
    LET all_cards == hole \o community_
    IN  BestFrom(all_cards, CombinationsOf5[Len(all_cards)], 1, None, 0, << >>)

BestDeck ==
    { c \in Deck : RankOf(c) >= NumRanks - TopRanks /\ SuitOf(c) < BestSuits }

\* the cards of BestDeck that may follow the last card of h
BestNext(h) == NextCards(h) \cap BestDeck

\* no, one or two more cards after those of h
MoreCards(h) ==
    { << >> } \cup { << d >> : d \in BestNext(h) }
              \cup UNION { { << d, e >> : e \in BestNext(h \o << d >>) } :
                              d \in BestNext(h) }

\* five to seven cards of BestDeck, the two lowest or the two highest of them
\* the hole cards
DealtCards ==
    \E r \in (NumRanks - TopRanks) .. (NumRanks - 1) :
    \E c2 \in BestNext(<< CardOf(r, 0) >>) :
    \E c3 \in BestNext(<< CardOf(r, 0), c2 >>) :
    \E c4 \in BestNext(<< CardOf(r, 0), c2, c3 >>) :
    \E c5 \in BestNext(<< CardOf(r, 0), c2, c3, c4 >>) :
    \E more \in MoreCards(<< CardOf(r, 0), c2, c3, c4, c5 >>) :
        LET cs == << CardOf(r, 0), c2, c3, c4, c5 >> \o more
            n == Len(cs)
        IN  \/ /\ hole_cards = SubSeq(cs, 1, 2)
               /\ community = SubSeq(cs, 3, n)
            \/ /\ hole_cards = SubSeq(cs, n - 1, n)
               /\ community = SubSeq(cs, 1, n - 2)

FindBestHand ==
    /\ Len(hole_cards) = 2
    /\ best_hand = << >>
    /\ best_hand' = find_best_hand(hole_cards, community)
    /\ UNCHANGED << hole_cards, community, handVars, compareVars, potVars,
                    trialVars, calcVars, gameVars,
                    otherVars >>

InitBest ==
    /\ IdleGame
    /\ DealtCards
    /\ best_hand = << >>
    /\ NoHand /\ NoCompare /\ NoPots /\ NoTrial /\ NoCalc /\ NoOther

SpecBest == InitBest /\ [][FindBestHand]_vars

(***************************************************************************)
(* create_side_pots on up to MaxPotPlayers players, each with a bet of at  *)
(* most MaxPotBet and folded or not.  players[i] is the player of id i.    *)
(***************************************************************************)
MaxPotPlayers == 4
MaxPotBet == 5

\* the ids of the players that have not folded
Contributors(ps) == { i \in DOMAIN ps : ~ps[i].is_folded }

\* the distinct bets of the contributors, a bet of nothing included
LevelsWithZero(ps) ==
    Ascending({ ps[i].total_bet_this_round : i \in Contributors(ps) })

\* the distinct positive bets of the contributors, ascending
Levels(ps) ==
    Ascending({ ps[i].total_bet_this_round : i \in Contributors(ps) } \ {0})

\* the eligible set of a level, folded players included
EligibleWithFolded(ps, level) ==
    { i \in DOMAIN ps : ps[i].total_bet_this_round >= level }

\* the eligible set of a level: contributors with bet at least the level
EligibleAt(ps, level) ==
    { i \in Contributors(ps) : ps[i].total_bet_this_round >= level }

\* the pots of the levels from the i-th on, previous the level below
RECURSIVE PotsFrom(_, _, _, _)
PotsFrom(ps, levels, i, previous) ==
    IF i > Len(levels) THEN << >>
    ELSE LET eligible == EligibleAt(ps, levels[i])
         IN  << [amount |-> (levels[i] - previous) * Cardinality(eligible),
                 eligible_players |-> eligible] >>
             \o PotsFrom(ps, levels, i + 1, levels[i])

\* PokerGame.create_side_pots
create_side_pots(ps) == PotsFrom(ps, Levels(ps), 1, 0)

\* a collection of players, ids from 0
SomePlayers ==
    \E n \in 0 .. MaxPotPlayers :
        players \in [0 .. (n - 1) -> [total_bet_this_round : 0 .. MaxPotBet,
                                     is_folded : BOOLEAN]]

CreateSidePots ==
    /\ ~side_pots.returned
    /\ side_pots' = [returned |-> TRUE, pots |-> create_side_pots(players)]
    /\ UNCHANGED << players, handVars, compareVars, bestVars, trialVars,
                    calcVars, gameVars,
                    otherVars >>

InitPots ==
    /\ IdleGame
    /\ SomePlayers
    /\ side_pots = NotReturned
    /\ NoHand /\ NoCompare /\ NoBest /\ NoTrial /\ NoCalc /\ NoOther

SpecPots == InitPots /\ [][CreateSidePots]_vars

(***************************************************************************)
(* One trial of the Monte Carlo estimator (src/win_probability.py): the    *)
(* shuffled deck has given the opponents their hole cards and completed    *)
(* the community cards; the trial is classified by _simulate_game and by   *)
(* the loop body of calculate_vs_specific_hands.  The deck of a trial with *)
(* n opponents is the 7 + 2n lowest cards of the first BestSuits suits,    *)
(* all of them dealt, the community cards from its TrialBoardCards lowest. *)
(***************************************************************************)
MaxTrialOpponents == 2
TrialBoardCards == 7

\* the rank and tiebreaker of the best hand: find_best_hand, HAND_RANKS and
\* evaluate_hand as _simulate_game calls them
BestEvaluation(hole, remaining_community) ==
    LET best == find_best_hand(hole, remaining_community)
    IN  [rank |-> HAND_RANKS(best.hand_type),
         tiebreaker |-> evaluate_hand(best.cards).tiebreaker]

\* best_opponent_rank = 0, best_opponent_tiebreaker = None
NoOpponent == [rank |-> 0, tiebreaker |-> << >>]

\* the loop of _simulate_game over the opponents from the i-th on
RECURSIVE BestOpponent(_, _, _)
BestOpponent(opps, i, best) ==
    IF i > Len(opps) THEN best
    ELSE IF opps[i].rank > best.rank
         THEN BestOpponent(opps, i + 1, opps[i])
         ELSE BestOpponent(opps, i + 1, best)

\* the loop of calculate_vs_specific_hands over the opponents from the i-th on
RECURSIVE BestSpecificOpponent(_, _, _)
BestSpecificOpponent(opps, i, best) ==
    IF i > Len(opps) THEN best
    ELSE IF opps[i].rank > best.rank
         THEN BestSpecificOpponent(opps, i + 1, opps[i])
    ELSE IF opps[i].rank = best.rank
            /\ TupleGreater(opps[i].tiebreaker, best.tiebreaker)
         THEN BestSpecificOpponent(opps, i + 1, opps[i])
         ELSE BestSpecificOpponent(opps, i + 1, best)

\* "Determine result" of both functions
Outcome(player, best) ==
    IF player.rank > best.rank THEN "win"
    ELSE IF player.rank = best.rank
         THEN IF TupleGreater(player.tiebreaker, best.tiebreaker) THEN "win"
              ELSE IF player.tiebreaker = best.tiebreaker THEN "tie"
              ELSE "loss"
         ELSE "loss"

\* _simulate_game once the cards are dealt
simulate_game(player, opps) == Outcome(player, BestOpponent(opps, 1, NoOpponent))

\* one trial of calculate_vs_specific_hands once the board is complete
vs_specific_hands(player, opps) ==
    Outcome(player, BestSpecificOpponent(opps, 1, NoOpponent))

\* the deck of a trial with n opponents
TrialDeck(n) ==
    { CardOf(k \div BestSuits, k % BestSuits) : k \in 0 .. (7 + 2 * n - 1) }

\* the cards of D above c
Over(D, c) == { d \in D : d > c }

\* the pairs of cards of D, lower card first
Pairs(D) == UNION { { << c, d >> : d \in Over(D, c) } : c \in D }

\* D without the cards of the pair pr
Less(D, pr) == D \ { pr[1], pr[2] }

\* a deal: five community cards, the subject's hole cards and the opponents'
Dealt5 ==
    \E n \in 1 .. MaxTrialOpponents :
    LET D == TrialDeck(n) IN
    LET B == { CardOf(k \div BestSuits, k % BestSuits) :
                   k \in 0 .. (TrialBoardCards - 1) } IN
    \E b1 \in B : \E b2 \in Over(B, b1) : \E b3 \in Over(B, b2) :
    \E b4 \in Over(B, b3) : \E b5 \in Over(B, b4) :
    \E pr \in Pairs(D \ {b1, b2, b3, b4, b5}) :
    \E o1 \in Pairs(Less(D \ {b1, b2, b3, b4, b5}, pr)) :
    \E more \in { << >> } \cup
                 { << o2 >> : o2 \in Pairs(Less(Less(D \ {b1, b2, b3, b4, b5}, pr), o1)) } :
        /\ Len(more) = n - 1
        /\ community = << b1, b2, b3, b4, b5 >>
        /\ hole_cards = pr
        /\ opponent_cards = << o1 >> \o more

ClassifyTrial ==
    /\ ~trial.classified
    /\ \E player \in { BestEvaluation(hole_cards, community) } :
       \E opps \in { [i \in 1 .. Len(opponent_cards) |->
                        BestEvaluation(opponent_cards[i], community)] } :
           trial' = [classified |-> TRUE,
                     player |-> player,
                     opponents |-> opps,
                     simulated |-> simulate_game(player, opps),
                     specific |-> vs_specific_hands(player, opps)]
    /\ UNCHANGED << hole_cards, community, best_hand, opponent_cards, handVars,
                    compareVars, potVars, calcVars, gameVars,
                    otherVars >>

InitTrial ==
    /\ IdleGame
    /\ Dealt5
    /\ best_hand = << >>
    /\ trial = NotClassified
    /\ NoHand /\ NoCompare /\ NoPots /\ NoCalc /\ NoOther

SpecTrial == InitTrial /\ [][ClassifyTrial]_vars

(***************************************************************************)
(* Python floats.  A float x >= 0 is the natural number x * 2^FracBits,    *)
(* written as its bits, lowest first, without leading zeros; every float   *)
(* met here is a multiple of 2^-FracBits.  Each operation computes the     *)
(* exact result and rounds it to Mantissa significant bits, to nearest,    *)
(* ties to even, as IEEE 754 double arithmetic does.                       *)
(***************************************************************************)
Mantissa == 53
FracBits == 64
LimbBits == 16

Bit(a, i) == IF i \in 1 .. Len(a) THEN a[i] ELSE 0

\* the position of the highest bit set, 0 if none
TopBit(a) ==
    IF \A i \in 1 .. Len(a) : a[i] = 0 THEN 0
    ELSE CHOOSE i \in 1 .. Len(a) : a[i] = 1 /\ \A j \in (i + 1) .. Len(a) : a[j] = 0

Trim(a) == SubSeq(a, 1, TopBit(a))

Pow2(n) == 2 ^ n

\* float(n) of a small natural number n
FromInt(n) ==
    Trim([i \in 1 .. (FracBits + 12) |->
             IF i <= FracBits THEN 0 ELSE (n \div Pow2(i - FracBits - 1)) % 2])

\* Sums, products and quotients are computed on limbs of LimbBits bits.
RECURSIVE Value(_, _, _)
Value(a, i, n) == IF n = 0 THEN 0 ELSE Bit(a, i) + 2 * Value(a, i + 1, n - 1)

Limbs(a) ==
    [j \in 1 .. ((Len(a) + LimbBits - 1) \div LimbBits) |->
        Value(a, (j - 1) * LimbBits + 1, LimbBits)]

\* (each operand is evaluated once, as the element of a set)
Bits(limbs) ==
    CHOOSE bits \in
        { Trim([i \in 1 .. (LimbBits * Len(l)) |->
                   (l[((i - 1) \div LimbBits) + 1] \div Pow2((i - 1) % LimbBits)) % 2]) :
              l \in { limbs } } : TRUE

Limb(l, j) == IF j \in 1 .. Len(l) THEN l[j] ELSE 0

\* the limbs j .. n of a + b, carry coming in
RECURSIVE AddFrom(_, _, _, _, _)
AddFrom(a, b, j, carry, n) ==
    IF j > n THEN << >>
    ELSE LET sum == Limb(a, j) + Limb(b, j) + carry
         IN  << sum % Pow2(LimbBits) >>
             \o AddFrom(a, b, j + 1, sum \div Pow2(LimbBits), n)

AddBits(a, b) ==
    Bits(AddFrom(Limbs(a), Limbs(b), 1, 0, (Max(Len(a), Len(b)) \div LimbBits) + 2))

\* the limbs j .. n of a * k for a small natural number k, carry coming in
RECURSIVE MulFrom(_, _, _, _, _)
MulFrom(a, k, j, carry, n) ==
    IF j > n THEN << >>
    ELSE LET prod == Limb(a, j) * k + carry
         IN  << prod % Pow2(LimbBits) >>
             \o MulFrom(a, k, j + 1, prod \div Pow2(LimbBits), n)

MulBits(a, k) == Bits(MulFrom(Limbs(a), k, 1, 0, (Len(a) \div LimbBits) + 2))

\* a divided by a small natural number k > 0: the limbs 1 .. j of the
\* quotient and the remainder, rem the remainder of the limbs above j
RECURSIVE DivFrom(_, _, _, _)
DivFrom(a, k, j, rem) ==
    IF j = 0 THEN [q |-> << >>, r |-> rem]
    ELSE LET r == rem * Pow2(LimbBits) + a[j]
             low == DivFrom(a, k, j - 1, r % k)
         IN  [q |-> low.q \o << r \div k >>, r |-> low.r]

DivBits(a, k) ==
    LET d == DivFrom(Limbs(a), k, Len(Limbs(a)), 0)
    IN  [q |-> Bits(d.q), r |-> d.r]

\* a, or a and something below its lowest bit if sticky, rounded to
\* Mantissa significant bits
Round(bits, sticky) ==
    CHOOSE rounded \in
        { LET drop == TopBit(a) - Mantissa
          IN  IF drop <= 0 THEN a
              ELSE LET kept == [i \in 1 .. Len(a) |-> IF i <= drop THEN 0 ELSE a[i]]
                       below == sticky \/ \E i \in 1 .. (drop - 1) : a[i] = 1
                       up == a[drop] = 1 /\ (below \/ a[drop + 1] = 1)
                       ulp == [i \in 1 .. (drop + 1) |-> IF i <= drop THEN 0 ELSE 1]
                   IN  IF up THEN AddBits(kept, ulp) ELSE Trim(kept) :
              a \in { bits } } : TRUE

\* x + y of floats
FAdd(x, y) == Round(AddBits(x, y), FALSE)

\* x * k of a float and an int
FMul(x, k) == Round(MulBits(x, k), FALSE)

\* x / k of a float and an int
FDiv(x, k) ==
    LET d == DivBits(x, k)
    IN  Round(d.q, d.r # 0)

\* x <= y of two floats
LessEq(x, y) ==
    \/ x = y
    \/ \E i \in 1 .. Len(y) :
          /\ y[i] = 1
          /\ Bit(x, i) = 0
          /\ \A j \in (i + 1) .. Max(Len(x), Len(y)) : Bit(x, j) = Bit(y, j)

\* x < y of two floats
Below(x, y) == x # y /\ LessEq(x, y)

\* the float a decimal literal n/d denotes: the nearest to the exact value
Literal(n, d) == FDiv(FromInt(n), d)

\* the floats 0.00, 0.01, ... the decimal literals of the bot denote
MaxPercent == 130
Percent == [n \in 0 .. MaxPercent |-> Literal(n, 100)]

ShiftLeft(a, n) == IF Len(a) = 0 THEN a ELSE [i \in 1 .. n |-> 0] \o a

ShiftRight(a, n) == SubSeq(a, n + 1, Len(a))

\* The product of two floats is the product of their mantissas, each taken
\* as four factors of FactorBits bits, shifted by their exponents.
FactorBits == (Mantissa + 3) \div 4

\* the position of the lowest of the Mantissa highest bits
LowBit(a) == Max(TopBit(a) - Mantissa + 1, 1)

Factors(a) == [j \in 1 .. 4 |-> Value(a, LowBit(a) + (j - 1) * FactorBits, FactorBits)]

Factor(l, j) == IF j \in 1 .. Len(l) THEN l[j] ELSE 0

\* the sum of the products of factors that fall in column c
Column(a, b, c) ==
    a[1] * Factor(b, c) + a[2] * Factor(b, c - 1)
        + a[3] * Factor(b, c - 2) + a[4] * Factor(b, c - 3)

\* the columns c .. 8 of the product, carry coming in
RECURSIVE Carried(_, _, _, _)
Carried(a, b, c, carry) ==
    IF c > 8 THEN << >>
    ELSE LET sum == Column(a, b, c) + carry
         IN  << sum % Pow2(FactorBits) >>
             \o Carried(a, b, c + 1, sum \div Pow2(FactorBits))

\* the bits of eight factors
FactorsBits(l) ==
    Trim([i \in 1 .. (8 * FactorBits) |->
             (l[((i - 1) \div FactorBits) + 1] \div Pow2((i - 1) % FactorBits)) % 2])

MantissaProduct(a, b) ==
    CHOOSE product \in
        { FactorsBits(l) :
              l \in { Carried(fa, fb, 1, 0) :
                          fa \in { [j \in 1 .. 4 |-> Factors(a)[j]] },
                          fb \in { [j \in 1 .. 4 |-> Factors(b)[j]] } } } : TRUE

\* x * y of two floats
FTimes(x, y) ==
    LET product == Round(MantissaProduct(x, y), FALSE)
        shift == LowBit(x) + LowBit(y) - 2 - FracBits
    IN  IF shift >= 0 THEN ShiftLeft(product, shift)
        ELSE ShiftRight(product, 0 - shift)

\* the limbs j .. n of a - b for a >= b, borrow coming in
RECURSIVE SubFrom(_, _, _, _, _)
SubFrom(a, b, j, borrow, n) ==
    IF j > n THEN << >>
    ELSE LET diff == Limb(a, j) - Limb(b, j) - borrow
         IN  << diff % Pow2(LimbBits) >>
             \o SubFrom(a, b, j + 1, IF diff < 0 THEN 1 ELSE 0, n)

SubBits(a, b) ==
    Bits(SubFrom(Limbs(a), Limbs(b), 1, 0, (Len(a) \div LimbBits) + 1))

\* x - y of two floats, y <= x
FSub(x, y) == Round(SubBits(x, y), FALSE)

\* int(x) of a float
Truncated(x) == Value(x, FracBits + 1, Max(Len(x) - FracBits, 0))

(***************************************************************************)
(* calculate_win_probability: the call validates its arguments, runs       *)
(* num_simulations trials, each counted by what _simulate_game returned,   *)
(* and returns the frequencies.                                            *)
(***************************************************************************)
MaxHoleGiven == 3
MaxCommunityGiven == 6
MaxOpponents == 2
MaxSimulations == 6

SuitInitial(s) == << "H", "D", "C", "S" >>[s + 1]

\* str(card)
Str(c) == << RankOf(c), SuitInitial(SuitOf(c)) >>

Strs(cards) == { Str(cards[i]) : i \in 1 .. Len(cards) }

ValidCommunityCountsAndSix == { 0, 3, 4, 5, 6 }
ValidCommunityCounts == { 0, 3, 4, 5 }

\* the message of the ValueError the validation raises, "" if none
ValidationError(player_hole_cards, community_cards_, opponents) ==
    IF Len(player_hole_cards) # 2
        THEN "Player must have exactly 2 hole cards"
    ELSE IF Len(community_cards_) \notin ValidCommunityCounts
        THEN "Community cards must be 0, 3, 4, or 5 cards"
    ELSE IF opponents < 1
        THEN "Must have at least 1 opponent"
    ELSE IF Strs(player_hole_cards) \cap Strs(community_cards_) # {}
        THEN "Player cards and community cards have duplicates"
    ELSE ""

\* the call, up to the loop
Call ==
    /\ result.status = "not called"
    /\ \E message \in { ValidationError(hole_cards, community, num_opponents) } :
          IF message # ""
          THEN /\ result' = [status |-> "raised", error |-> "ValueError",
                             message |-> message]
               /\ UNCHANGED << wins, ties, losses, simulations_run >>
          ELSE /\ wins' = 0
               /\ ties' = 0
               /\ losses' = 0
               /\ simulations_run' = 0
               /\ result' = [status |-> "running"]
    /\ UNCHANGED << num_opponents, num_simulations, bestVars, handVars,
                    compareVars, potVars, trialVars, gameVars,
                    otherVars >>

Outcomes == { "win", "tie", "loss" }

\* the counters after a trial that ended in outcome
CountedWithoutTies(outcome) ==
    IF outcome = "win"
        THEN [wins |-> wins + 1, ties |-> ties, losses |-> losses]
    ELSE IF outcome = "tie"
        THEN [wins |-> wins, ties |-> ties, losses |-> losses]
    ELSE [wins |-> wins, ties |-> ties, losses |-> losses + 1]

Counted(outcome) ==
    IF outcome = "win"
        THEN [wins |-> wins + 1, ties |-> ties, losses |-> losses]
    ELSE IF outcome = "tie"
        THEN [wins |-> wins, ties |-> ties + 1, losses |-> losses]
    ELSE [wins |-> wins, ties |-> ties, losses |-> losses + 1]

\* one iteration of the loop
Simulate ==
    /\ result.status = "running"
    /\ simulations_run < num_simulations
    /\ \E outcome \in Outcomes :
          /\ wins' = Counted(outcome).wins
          /\ ties' = Counted(outcome).ties
          /\ losses' = Counted(outcome).losses
    /\ simulations_run' = simulations_run + 1
    /\ UNCHANGED << result, num_opponents, num_simulations, bestVars, handVars,
                    compareVars, potVars, trialVars, gameVars,
                    otherVars >>

EquityOpponentsOnly(opponents) == opponents
EquityPlayers(opponents) == opponents + 1

\* after the loop
Return ==
    /\ result.status = "running"
    /\ simulations_run = num_simulations
    /\ result' =
          IF num_simulations = 0
          THEN [status |-> "raised", error |-> "ZeroDivisionError",
                message |-> "division by zero"]
          ELSE LET total == num_simulations
                   win_prob == FDiv(FromInt(wins), total)
                   tie_prob == FDiv(FromInt(ties), total)
                   lose_prob == FDiv(FromInt(losses), total)
                   num_players == EquityPlayers(num_opponents)
                   equity == FAdd(win_prob, FDiv(tie_prob, num_players))
               IN  [status |-> "returned",
                    win_prob |-> win_prob, tie_prob |-> tie_prob,
                    lose_prob |-> lose_prob, equity |-> equity,
                    wins |-> wins, ties |-> ties, losses |-> losses]
    /\ UNCHANGED << wins, ties, losses, simulations_run, num_opponents,
                    num_simulations, bestVars, handVars, compareVars, potVars,
                    trialVars, gameVars,
                    otherVars >>

\* the arguments: up to MaxHoleGiven hole cards and MaxCommunityGiven
\* community cards, the first community card being the last hole card or
\* the card after it
Arguments ==
    \E h \in 0 .. MaxHoleGiven : \E c \in 0 .. MaxCommunityGiven :
      \E first \in { Max(h - 1, 0), h } :
        /\ hole_cards = [i \in 1 .. h |-> i - 1]
        /\ community = [i \in 1 .. c |-> first + i - 1]
        /\ num_opponents \in 0 .. MaxOpponents
        /\ num_simulations \in 0 .. MaxSimulations

InitCalc ==
    /\ IdleGame
    /\ Arguments
    /\ best_hand = << >>
    /\ wins = 0
    /\ ties = 0
    /\ losses = 0
    /\ simulations_run = 0
    /\ result = NotCalled
    /\ NoHand /\ NoCompare /\ NoPots /\ NoTrial /\ NoOther

NextCalc == Call \/ Simulate \/ Return

SpecCalc == InitCalc /\ [][NextCalc]_vars

(***************************************************************************)
(* Deck: the 52 cards in the order of Deck.__init__, shuffled, then any    *)
(* calls of deal and shuffle.  random.shuffle can leave the cards in any   *)
(* order; the model draws from two of them.                                *)
(***************************************************************************)
MaxDeal == 3
MaxDealt == 11
MaxShuffles == 2

\* [Card(suit, rank) for suit in Card.SUITS for rank in Card.RANKS]
NewDeck == [i \in 1 .. (NumRanks * NumSuits) |-> i - 1]

\* the orders random.shuffle(cs) is taken to leave: cs reversed, and cs with
\* its first and last card exchanged
Shuffled(cs) ==
    { Reverse(cs),
      [i \in 1 .. Len(cs) |-> IF i = 1 THEN cs[Len(cs)]
                              ELSE IF i = Len(cs) THEN cs[1] ELSE cs[i]] }

\* Deck.shuffle
Shuffle ==
    /\ shuffles < MaxShuffles
    /\ deck_cards' \in Shuffled(deck_cards)
    /\ shuffles' = shuffles + 1
    /\ UNCHANGED << num_cards, dealt_cards, dealt, handVars, compareVars, bestVars,
                    potVars, trialVars, calcVars, gameVars, botVars, showVars, uiVars >>

\* the test of deal taking a deck of exactly n cards for too small
NotEnoughOrAll(n, cs) == n >= Len(cs)

\* num_cards > len(self.cards)
NotEnough(n, cs) == n > Len(cs)

\* a slice that keeps the last dealt card in the deck
SliceFromLast(cs, n) == SubSeq(cs, Max(n, 1), Len(cs))

\* self.cards[:num_cards] and self.cards[num_cards:] for num_cards >= 0
SliceTo(cs, n) == SubSeq(cs, 1, Min(n, Len(cs)))
SliceFrom(cs, n) == SubSeq(cs, n + 1, Len(cs))

\* Deck.deal(n)
Deal(n) ==
    /\ num_cards' = n
    /\ IF NotEnough(n, deck_cards)
       THEN /\ dealt_cards' = [status |-> "raised", error |-> "ValueError"]
            /\ UNCHANGED << deck_cards, dealt >>
       ELSE /\ dealt_cards' = [status |-> "returned", cards |-> SliceTo(deck_cards, n)]
            /\ deck_cards' = SliceFrom(deck_cards, n)
            /\ dealt' = dealt \o SliceTo(deck_cards, n)
    /\ UNCHANGED << shuffles, handVars, compareVars, bestVars, potVars,
                    trialVars, calcVars, gameVars, botVars, showVars, uiVars >>

\* the arguments of deal: up to MaxDeal cards while fewer than MaxDealt have
\* been dealt, all the cards left, and one card more than that
DealSizes ==
    (IF Len(dealt) < MaxDealt THEN 0 .. MaxDeal ELSE {})
        \cup { Len(deck_cards), Len(deck_cards) + 1 }

DealSome == \E n \in DealSizes : Deal(n)

\* Deck()
InitDeck ==
    /\ IdleGame
    /\ deck_cards \in Shuffled(NewDeck)
    /\ shuffles = 1
    /\ num_cards = 0
    /\ dealt_cards = NotDealt
    /\ dealt = << >>
    /\ NoHand /\ NoCompare /\ NoBest /\ NoPots /\ NoTrial /\ NoCalc /\ NoBot
    /\ NoShow /\ NoUi

NextDeck == Shuffle \/ DealSome

SpecDeck == InitDeck /\ [][NextDeck]_vars

(***************************************************************************)
(* PokerBot: a bot of one of the TYPES is asked for one decision.  The     *)
(* Monte Carlo estimate is any equity the calculator can return from its       *)
(* counts of won and tied simulations; random.random() is any float of     *)
(* [0, 1).  Every product of floats met here is zero or at least 2^-11.    *)
(* stack_depth, current_bet and is_preflop are passed on to _make_decision *)
(* and never read there.                                                   *)
(***************************************************************************)
BotSimulations == 1000
MaxToCall == 2
MaxBotStack == 4
MaxBotPot == 6

\* PokerBot.TYPES
TYPES ==
    [TAG |-> [tightness |-> Percent[75], aggression |-> Percent[85]],
     LAG |-> [tightness |-> Percent[35], aggression |-> Percent[80]],
     CTR |-> [tightness |-> Percent[55], aggression |-> Percent[40]],
     NIT |-> [tightness |-> Percent[90], aggression |-> Percent[50]],
     FISH |-> [tightness |-> Percent[30], aggression |-> Percent[20]]]

\* {"early": 0.5, "middle": 0.8, "late": 1.3}
Multipliers ==
    [early |-> Percent[50], middle |-> Percent[80], late |-> Percent[130]]

\* _get_position_multiplier
get_position_multiplier(position) ==
    IF position \in DOMAIN Multipliers THEN Multipliers[position] ELSE Percent[80]

\* fold_threshold of _make_decision
fold_threshold(type, position) ==
    FTimes(FAdd(Percent[35], FTimes(TYPES[type].tightness, Percent[30])),
           get_position_multiplier(position))

Positions == { "early", "middle", "late", "blinds" }

FoldThresholds == [type \in DOMAIN TYPES, position \in Positions |->
                      fold_threshold(type, position)]

\* _preflop_hand_strength; rank_values[card.rank] is RankOf(card) + 2
preflop_hand_strength(hole) ==
    IF Len(hole) # 2 THEN Percent[0]
    ELSE LET v1 == RankOf(hole[1]) + 2
             v2 == RankOf(hole[2]) + 2
             is_pair == RankOf(hole[1]) = RankOf(hole[2])
             is_suited == SuitOf(hole[1]) = SuitOf(hole[2])
             high_value == Max(v1, v2)
             low_value == Min(v1, v2)
             climb == FDiv(FromInt(high_value - 2), 12)
         IN  IF is_pair
                 THEN FAdd(Percent[60], FTimes(climb, Percent[40]))
             ELSE IF v1 = 14 \/ v2 = 14
                 THEN FAdd(IF low_value >= 10 THEN Percent[75]
                           ELSE IF low_value >= 6 THEN Percent[50]
                           ELSE Percent[35],
                           IF is_suited THEN Percent[15] ELSE Percent[0])
             ELSE IF v1 >= 12 \/ v2 >= 12
                 THEN FAdd(Percent[55],
                           IF is_suited THEN Percent[10] ELSE Percent[0])
             ELSE IF is_suited
                 THEN FAdd(Percent[30], FTimes(climb, Percent[20]))
             ELSE FAdd(Percent[15], FTimes(climb, Percent[15]))

\* _simple_hand_strength
simple_hand_strength(hole, community_) ==
    LET best == find_best_hand(hole, community_)
    IN  IF best = None THEN Percent[0]
        ELSE FDiv(FromInt(HAND_RANKS(best.hand_type)), 10)

\* _evaluate_hand_strength
evaluate_hand_strength(hole, community_) ==
    IF Len(community_) < 3 THEN preflop_hand_strength(hole)
    ELSE simple_hand_strength(hole, community_)

\* the hole and community cards the bot is given: aces, 8 7 suited, 7 2,
\* king queen suited and ace king before the flop, a flush and a full house
\* on the flop, two community cards, a community card that is a hole card,
\* and a single hole card
BotDeals ==
    { << << CardOf(12, 0), CardOf(12, 1) >>, << >> >>,
      << << CardOf(6, 0), CardOf(5, 0) >>, << >> >>,
      << << CardOf(5, 0), CardOf(0, 1) >>, << >> >>,
      << << CardOf(11, 2), CardOf(10, 2) >>, << >> >>,
      << << CardOf(12, 3), CardOf(11, 1) >>, << >> >>,
      << << CardOf(12, 0), CardOf(11, 0) >>,
         << CardOf(10, 0), CardOf(3, 0), CardOf(0, 0) >> >>,
      << << CardOf(12, 0), CardOf(12, 1) >>,
         << CardOf(12, 2), CardOf(11, 0), CardOf(11, 1) >> >>,
      << << CardOf(12, 0), CardOf(11, 1) >>, << CardOf(5, 2), CardOf(0, 3) >> >>,
      << << CardOf(12, 0), CardOf(11, 0) >>,
         << CardOf(12, 0), CardOf(10, 0), CardOf(9, 0) >> >>,
      << << CardOf(12, 0) >>, << >> >> }

Strengths == [deal \in BotDeals |-> evaluate_hand_strength(deal[1], deal[2])]

Fallbacks == [deal \in BotDeals |-> simple_hand_strength(deal[1], deal[2])]

\* the wins and ties a run of BotSimulations simulations can count
SimulationCounts ==
    { << 0, 0 >>, << 400, 0 >>, << 300, 200 >>, << 401, 0 >>, << 660, 0 >>,
      << 1000, 0 >> }

BotOpponents == { 0, 1, MaxOpponents + 1 }

\* result['equity'] of calculate_win_probability for the counts
EstimatedEquity(counted, opponents) ==
    FAdd(FDiv(FromInt(counted[1]), BotSimulations),
         FDiv(FDiv(FromInt(counted[2]), BotSimulations), EquityPlayers(opponents)))

Estimates == [counted \in SimulationCounts, opponents \in BotOpponents |->
                 EstimatedEquity(counted, opponents)]

\* an exception of the estimator leaving _get_equity
ExceptNothing(hole, community_) == [status |-> "raised", error |-> "ValueError"]

\* except Exception: return self._simple_hand_strength(...)
Except(hole, community_) ==
    [status |-> "returned", value |-> Fallbacks[<< hole, community_ >>],
     estimator |-> "raised"]

\* _get_equity returning 0.4 without asking the estimator
NoOpponentsForty == [status |-> "returned", value |-> Percent[40],
                     estimator |-> "not called"]

\* if num_opponents < 1: return 0.5
NoOpponents == [status |-> "returned", value |-> Percent[50],
                estimator |-> "not called"]

\* _get_equity
get_equity(hole, community_, opponents, counted) ==
    IF opponents < 1 THEN NoOpponents
    ELSE IF ValidationError(hole, community_, opponents) # ""
        THEN Except(hole, community_)
    ELSE [status |-> "returned", value |-> Estimates[counted, opponents],
          estimator |-> "returned"]

GetEquity ==
    /\ bot_equity.status = "not called"
    /\ \E counted \in SimulationCounts :
          bot_equity' = get_equity(hole_cards, community, num_opponents, counted)
    /\ UNCHANGED << bot, situation, decision, hole_cards, community, best_hand,
                    calcVars, handVars, compareVars, potVars, trialVars, deckVars,
                    showVars, uiVars, gameVars >>

Returned(action, amounts) ==
    [status |-> "returned", action |-> action, raise_amount |-> amounts]

\* _decide_with_limited_equity; the raise_amount None is the empty set
decide_with_limited_equity(equity_) ==
    IF Below(Percent[40], equity_) THEN Returned("call", {})
    ELSE Returned("fold", {})

\* _decide_check_or_bet
decide_check_or_bet(type, equity_, hand_strength, opponents, player_stack, random) ==
    IF /\ \/ Below(Percent[65], hand_strength)
          \/ Below(Percent[65], equity_) /\ opponents <= 2
       /\ Below(random, TYPES[type].aggression)
    THEN Returned("raise", { Truncated(FMul(Percent[25], player_stack)) })
    ELSE Returned("check", {})

\* _calculate_raise_amount
calculate_raise_amount(type, to_call_, player_stack, hand_strength) ==
    LET min_raise == to_call_
        max_raise == Truncated(FMul(Percent[50], player_stack))
        more(n) == FTimes(FMul(TYPES[type].aggression, n), hand_strength)
        raise_amount ==
            IF max_raise >= min_raise
            THEN Truncated(FAdd(FromInt(min_raise), more(max_raise - min_raise)))
            ELSE IF LessEq(more(min_raise - max_raise), FromInt(min_raise))
            THEN Truncated(FSub(FromInt(min_raise), more(min_raise - max_raise)))
            ELSE 0 - Truncated(FSub(more(min_raise - max_raise), FromInt(min_raise)))
    IN  Max(min_raise, Min(raise_amount, player_stack))

\* pot_odds of decide_action
pot_odds(to_call_, pot_) ==
    IF pot_ + to_call_ > 0 THEN FDiv(FromInt(to_call_), pot_ + to_call_)
    ELSE Percent[0]

\* the to_call, player_stack and pot the bot is asked with
ToCalls == 0 .. MaxToCall
Stacks == { 0, 1, MaxBotStack }
Pots == { 0, MaxBotPot }

\* call_threshold of _make_decision
call_threshold(to_call_, pot_) == FTimes(pot_odds(to_call_, pot_), Percent[80])

CallThresholds == [to_call_ \in ToCalls, pot_ \in Pots |-> call_threshold(to_call_, pot_)]

\* _make_decision
make_decision(type, s, equity_, hand_strength, opponents, random) ==
    IF s.to_call = 0
        THEN decide_check_or_bet(type, equity_, hand_strength, opponents,
                                 s.player_stack, random)
    ELSE IF Below(equity_, FoldThresholds[type, s.position])
        THEN Returned("fold", {})
    ELSE IF \/ LessEq(CallThresholds[s.to_call, s.pot], equity_)
            \/ Below(Percent[50], equity_)
        THEN IF /\ Below(random, TYPES[type].aggression)
                /\ Below(Percent[40], hand_strength)
             THEN Returned("raise", { calculate_raise_amount(type, s.to_call,
                                                            s.player_stack,
                                                            hand_strength) })
             ELSE Returned("call", {})
    ELSE Returned("fold", {})

\* decide_action, _get_equity having returned or raised
decide_action(type, s, hole, community_, opponents, estimate, random) ==
    IF estimate.status = "raised" THEN estimate
    ELSE IF s.to_call > s.player_stack THEN decide_with_limited_equity(estimate.value)
    ELSE make_decision(type, s, estimate.value,
                       Strengths[<< hole, community_ >>], opponents, random)

\* the values of random.random() drawn
Randoms == { Percent[0], Percent[50], Percent[90] }

Decide ==
    /\ bot_equity.status # "not called"
    /\ decision.status = "not called"
    /\ \E random \in Randoms :
          decision' = decide_action(bot, situation, hole_cards, community,
                                    num_opponents, bot_equity, random)
    /\ UNCHANGED << bot, situation, bot_equity, hole_cards, community, best_hand,
                    calcVars, handVars, compareVars, potVars, trialVars, deckVars,
                    showVars, uiVars, gameVars >>

\* a bot of one of the types and the arguments of one call of decide_action
InitBot ==
    /\ IdleGame
    /\ bot \in DOMAIN TYPES
    /\ \E deal \in BotDeals : hole_cards = deal[1] /\ community = deal[2]
    /\ num_opponents \in BotOpponents
    /\ situation \in [to_call : ToCalls, player_stack : Stacks, pot : Pots,
                      position : Positions]
    /\ bot_equity = NotDealt
    /\ decision = NotDealt
    /\ best_hand = << >>
    /\ num_simulations = BotSimulations
    /\ wins = 0
    /\ ties = 0
    /\ losses = 0
    /\ simulations_run = 0
    /\ result = NotCalled
    /\ NoHand /\ NoCompare /\ NoPots /\ NoTrial /\ NoDeck /\ NoShow /\ NoUi

NextBot == GetEquity \/ Decide

SpecBot == InitBot /\ [][NextBot]_vars

(***************************************************************************)
(* determine_winner: a hand has come to its end with the hole cards, the   *)
(* community cards, the folded flags and the pot of the table any of a few *)
(* showdowns, every seating of the hands among them.  Before the river     *)
(* play_hand calls determine_winner only when one player has not folded.   *)
(***************************************************************************)
MaxShowBet == 2

\* the elif test of the winners loop, ignoring tiebreakers
TiedByRankOnly(hand_rank, tiebreaker, best_hand_rank, best_tiebreaker) ==
    hand_rank = best_hand_rank

\* the elif test of the winners loop
Tied(hand_rank, tiebreaker, best_hand_rank, best_tiebreaker) ==
    hand_rank = best_hand_rank /\ tiebreaker = best_tiebreaker

\* one pass of the winners loop of determine_winner for the player whose
\* best hand is best and whose tiebreaker is tiebreaker
CompareHand(player, best, tiebreaker, state) ==
    LET hand_rank == HAND_RANKS(best.hand_type)
    IN  IF Better(hand_rank, tiebreaker, state.best_hand_rank, state.best_tiebreaker)
        THEN [best_hand_rank |-> hand_rank, best_tiebreaker |-> tiebreaker,
              winners |-> << player >>, winning_hand_type |-> best.hand_type]
        ELSE IF Tied(hand_rank, tiebreaker, state.best_hand_rank,
                     state.best_tiebreaker)
        THEN [state EXCEPT !.winners = Append(state.winners, player)]
        ELSE state

\* the winners loop of determine_winner over active_players from the i-th
\* on; best_hand[0] of None raises TypeError, a pot split among no winners
\* ZeroDivisionError
RECURSIVE CompareFrom(_, _, _, _, _)
CompareFrom(active, i, hands, community_, state) ==
    IF i > Len(active)
    THEN IF Len(state.winners) = 0
         THEN [status |-> "raised", error |-> "ZeroDivisionError"]
         ELSE [status |-> "returned", winners |-> state.winners,
               hand_type |-> state.winning_hand_type]
    ELSE CHOOSE info \in
             { IF best = None THEN [status |-> "raised", error |-> "TypeError"]
               ELSE CHOOSE after \in
                        { CompareFrom(active, i + 1, hands, community_, next) :
                             next \in { CompareHand(active[i], best, tiebreaker, state) :
                                           tiebreaker \in
                                               { evaluate_hand(best.cards).tiebreaker } } } :
                        TRUE :
               best \in { find_best_hand(hands[active[i]], community_) } } : TRUE

\* what determine_winner adds to the stacks when it has the winners w
Amounts(w, thepot) ==
    IF Len(w) = 1 THEN [p \in Players |-> IF p = w[1] THEN thepot ELSE 0]
    ELSE [p \in Players |->
             IF \E i \in 1 .. Len(w) : w[i] = p
             THEN (thepot \div Len(w)) + (IF p = w[1] THEN 1 ELSE 0)
             ELSE 0]

\* determine_winner: the winners and the hand_type of the returned dict
determine_winner(hands, community_, fld) ==
    LET active_players == Ascending(ActiveUnfolded(fld))
    IN  IF Len(active_players) = 1
        THEN [status |-> "returned", winners |-> active_players,
              hand_type |-> "Opponents Folded"]
        ELSE CompareFrom(active_players, 1, hands, community_,
                         [best_hand_rank |-> 0, best_tiebreaker |-> << >>,
                          winners |-> << >>, winning_hand_type |-> ""])

DetermineWinner ==
    /\ winner_info.status = "not called"
    /\ \E info \in { determine_winner(players_hole_cards, community, is_folded) } :
          /\ winner_info' = info
          /\ IF info.status = "returned"
             THEN \E amounts \in { Amounts(info.winners, pot) } :
                     /\ stack' = [p \in Players |-> stack[p] + amounts[p]]
                     /\ paid' = amounts
             ELSE UNCHANGED << stack, paid >>
    /\ UNCHANGED << total_bet_this_round, is_folded, is_ai, pot, current_bet,
                    button, hand_number, community_cards, stage, pc,
                    current_player_idx, players_who_acted_this_level,
                    contributed, last_to_act, players_hole_cards, hole_cards,
                    community, best_hand, handVars, compareVars, potVars,
                    trialVars, calcVars, deckVars, botVars, uiVars >>

\* 2 7 9 J K of mixed suits
MixedBoard ==
    << CardOf(0, 0), CardOf(5, 1), CardOf(7, 2), CardOf(9, 3), CardOf(11, 0) >>

\* the hole cards of the players and the community cards: three hands of
\* different categories; two equal hands and a weaker one of their category;
\* two equal hands and three of a kind; a straight on the board; the wheel,
\* a six-high straight and a pair; the first of these before the flop
Showdowns ==
    { << << << CardOf(12, 1), CardOf(12, 2) >>, << CardOf(11, 1), CardOf(10, 1) >>,
            << CardOf(5, 2), CardOf(0, 1) >> >>, MixedBoard >>,
      << << << CardOf(12, 1), CardOf(10, 1) >>, << CardOf(12, 2), CardOf(10, 2) >>,
            << CardOf(12, 3), CardOf(1, 3) >> >>, MixedBoard >>,
      << << << CardOf(12, 1), CardOf(10, 1) >>, << CardOf(12, 2), CardOf(10, 2) >>,
            << CardOf(11, 1), CardOf(11, 2) >> >>, MixedBoard >>,
      << << << CardOf(0, 1), CardOf(0, 2) >>, << CardOf(1, 1), CardOf(0, 3) >>,
            << CardOf(1, 2), CardOf(12, 1) >> >>,
         << CardOf(3, 0), CardOf(4, 1), CardOf(5, 2), CardOf(6, 3), CardOf(7, 0) >> >>,
      << << << CardOf(12, 1), CardOf(7, 1) >>, << CardOf(4, 2), CardOf(7, 2) >>,
            << CardOf(11, 1), CardOf(10, 1) >> >>,
         << CardOf(0, 0), CardOf(1, 1), CardOf(2, 2), CardOf(3, 3), CardOf(11, 0) >> >>,
      << << << CardOf(12, 1), CardOf(12, 2) >>, << CardOf(11, 1), CardOf(10, 1) >>,
            << CardOf(5, 2), CardOf(0, 1) >> >>, << >> >> }

\* the stage of play_hand in which the community cards are n
StageOf(n) ==
    IF n = 0 THEN "Pre-Flop" ELSE IF n = 3 THEN "Flop"
    ELSE IF n = 4 THEN "Turn" ELSE "River"

InitShowdown ==
    /\ \E deal \in Showdowns :
          /\ players_hole_cards \in
                 { h \in [Players -> Range(deal[1])] :
                      \A p, q \in Players : h[p] = h[q] => p = q }
          /\ community = deal[2]
    /\ community_cards = Len(community)
    /\ stage = StageOf(community_cards)
    /\ is_folded \in [Players -> BOOLEAN]
    /\ ActiveUnfolded(is_folded) # {}
    /\ community_cards < 5 => Cardinality(ActiveUnfolded(is_folded)) = 1
    /\ contributed \in [Players -> { 1, MaxShowBet }]
    /\ stack = [p \in Players |-> StartingStack - contributed[p]]
    /\ pot = SumOver(contributed, Players)
    /\ total_bet_this_round = Zero
    /\ current_bet = 0
    /\ is_ai = [p \in Players |-> TRUE]
    /\ button = 0
    /\ hand_number = 1
    /\ pc = "settled"
    /\ current_player_idx = 0
    /\ players_who_acted_this_level = {}
    /\ paid = Zero
    /\ last_to_act = -1
    /\ winner_info = NotDealt
    /\ hole_cards = << >>
    /\ best_hand = << >>
    /\ NoHand /\ NoCompare /\ NoPots /\ NoTrial /\ NoCalc /\ NoDeck /\ NoBot /\ NoUi

SpecShowdown == InitShowdown /\ [][DetermineWinner]_vars

(***************************************************************************)
(* PokerUI: start_game makes player 0 the human player, play_single_hand   *)
(* plays the hands as play_hand does, and PokerUI.betting_round with       *)
(* process_action works on the players, pot and current_bet of the game.   *)
(* The game runs in a thread of its own: the buttons are pressed while it  *)
(* runs.  get_active_players and get_unfolded_players of the game are the  *)
(* players that have not folded and have chips, and the players that have  *)
(* not folded.  current_player_idx and players_who_acted_this_level are    *)
(* the locals of PokerUI.betting_round here.                               *)
(***************************************************************************)
get_active_players(stk, fld) == { p \in Players : ~fld[p] /\ stk[p] > 0 }

get_unfolded_players(fld) == { p \in Players : ~fld[p] }

\* PokerUI.process_action with self.raise_amount = amount
process_action(p, action, amount) ==
    LET to_call == current_bet - total_bet_this_round[p]
        bet_amount ==
            IF action = "call" THEN (IF to_call > 0 THEN Min(to_call, stack[p]) ELSE 0)
            ELSE IF action = "raise" THEN Min(to_call + amount, stack[p])
            ELSE 0
        bets == [total_bet_this_round EXCEPT ![p] = @ + bet_amount]
    IN  [stack |-> [stack EXCEPT ![p] = @ - bet_amount],
         total_bet_this_round |-> bets,
         is_folded |-> [is_folded EXCEPT ![p] = @ \/ (action = "fold")],
         bet_amount |-> bet_amount,
         current_bet |->
             IF action = "call" /\ to_call > 0 THEN Max(current_bet, bets[p])
             ELSE IF action = "raise" THEN bets[p]
             ELSE current_bet]

\* the break conditions at the end of one iteration of the loop of
\* PokerUI.betting_round
UiRoundComplete(stk, bets, fld, cur, acted) ==
    \/ Cardinality(get_active_players(stk, fld)) <= 1
    \/ Cardinality(get_unfolded_players(fld)) <= 1
    \/ /\ get_unfolded_players(fld) \subseteq acted
       /\ \A p \in get_unfolded_players(fld) : bets[p] = cur

\* process_action, the acted set and the completion test of one iteration
UiTakeTurn(p, action, amount) ==
    \E done \in { process_action(p, action, amount) } :
        LET nacted == players_who_acted_this_level \cup {p}
        IN  /\ stack' = done.stack
            /\ total_bet_this_round' = done.total_bet_this_round
            /\ is_folded' = done.is_folded
            /\ pot' = pot + done.bet_amount
            /\ current_bet' = done.current_bet
            /\ players_who_acted_this_level' = nacted
            /\ contributed' = [contributed EXCEPT ![p] = @ + done.bet_amount]
            /\ last_to_act' = p
            /\ IF UiRoundComplete(done.stack, done.total_bet_this_round,
                                  done.is_folded, done.current_bet, nacted)
               THEN pc' = "settled" /\ current_player_idx' = current_player_idx
               ELSE pc' = "betting"
                    /\ current_player_idx' = (current_player_idx + 1) % NumPlayers
            /\ UNCHANGED << is_ai, button, hand_number, community_cards, stage,
                            paid >>

UnchangedByUi ==
    UNCHANGED << handVars, compareVars, bestVars, potVars, trialVars, calcVars,
                 deckVars, botVars, showVars >>

\* the player at current_player_idx is folded or has no chips: continue
UiSkipPlayer == SkipPlayer

\* if self.skip_to_player: the AI player is passed over
UiSkipAi ==
    /\ pc = "betting"
    /\ ~CannotAct(current_player_idx)
    /\ is_ai[current_player_idx]
    /\ ui.skip_to_player
    /\ current_player_idx' = (current_player_idx + 1) % NumPlayers
    /\ ui' = [ui EXCEPT !.skip_buttons = TRUE, !.decision = NoDecision]
    /\ UNCHANGED << stack, total_bet_this_round, is_folded, is_ai, pot,
                    current_bet, button, hand_number, community_cards, stage,
                    pc, players_who_acted_this_level, contributed, paid,
                    last_to_act >>
    /\ UnchangedByUi

\* an AI player's turn in PokerUI.betting_round
UiAiTurn ==
    /\ pc = "betting"
    /\ ~CannotAct(current_player_idx)
    /\ is_ai[current_player_idx]
    /\ ~ui.skip_to_player
    /\ LET p == current_player_idx
           to_call == current_bet - total_bet_this_round[p]
       IN  \E action \in IF to_call = 0 THEN { "check" }
                         ELSE { ai_decision(stack[p], to_call, hs, rnd) :
                                   hs \in HandStrengths(community_cards),
                                   rnd \in BOOLEAN } :
               /\ UiTakeTurn(p, action, ui.raise_amount)
               /\ ui' = [ui EXCEPT !.skip_buttons = TRUE,
                                   !.decision = [player |-> p, action |-> action,
                                                 typed |-> -1]]
    /\ UnchangedByUi

\* the human player's turn: Check or Call, Fold, or Raise with a number in
\* the entry (player_action, confirm_raise)
UiHumanTurn ==
    /\ pc = "betting"
    /\ ~CannotAct(current_player_idx)
    /\ ~is_ai[current_player_idx]
    /\ LET p == current_player_idx
           to_call == current_bet - total_bet_this_round[p]
       IN  \E action \in { IF to_call = 0 THEN "check" ELSE "call", "fold", "raise" },
              typed \in -1 .. MaxRaiseInput :
               /\ (action = "raise") = (typed >= 0)
               /\ UiTakeTurn(p, action, typed)
               /\ ui' = [raise_amount |-> IF action = "raise" THEN typed
                                          ELSE ui.raise_amount,
                         skip_to_player |-> FALSE,
                         skip_buttons |-> FALSE,
                         decision |-> [player |-> p, action |-> action,
                                       typed |-> typed]]
    /\ UnchangedByUi

\* skip_to_player_action: Next Player Action is pressed
skip_to_player_action ==
    /\ ui.skip_buttons
    /\ ui' = [ui EXCEPT !.skip_to_player = TRUE, !.skip_buttons = FALSE]
    /\ UNCHANGED gameVars
    /\ UnchangedByUi

\* confirm_raise: Raise is pressed while the game is not waiting for the
\* human player
confirm_raise ==
    /\ pc = "betting"
    /\ is_ai[current_player_idx] \/ CannotAct(current_player_idx)
    /\ \E typed \in 0 .. MaxRaiseInput :
          /\ typed # ui.raise_amount
          /\ ui' = [ui EXCEPT !.raise_amount = typed]
    /\ UNCHANGED gameVars
    /\ UnchangedByUi

\* play_single_hand up to the first turn of the Pre-Flop betting round
PlaySingleHand == StartHand

\* play_single_hand after a betting round has returned
AfterUiRound == AfterRound

\* start_game
InitUi ==
    /\ NewGame
    /\ is_ai = [p \in Players |-> p # 0]
    /\ NoEval

NextUi ==
    \/ PlaySingleHand \/ UiSkipPlayer \/ UiSkipAi \/ UiAiTurn \/ UiHumanTurn
    \/ AfterUiRound \/ skip_to_player_action \/ confirm_raise

SpecUi == InitUi /\ [][NextUi]_vars

(***************************************************************************)
(* Properties of the betting round and the showdown.                       *)
(***************************************************************************)
InStreet == pc \in {"betting", "settled"}

MaxBet == CHOOSE m \in { total_bet_this_round[p] : p \in Players } :
              \A q \in Players : total_bet_this_round[q] <= m

\* C1: whenever betting_round has returned, at most one non-folded player
\* remains, or every non-folded player has acted since the last raise and
\* every non-folded player's total_bet_this_round equals current_bet.
C1_RoundEndsSettled ==
    pc = "settled" =>
        \/ Cardinality(ActiveUnfolded(is_folded)) <= 1
        \/ /\ ActiveUnfolded(is_folded) \subseteq players_who_acted_this_level
           /\ \A p \in ActiveUnfolded(is_folded) :
                  total_bet_this_round[p] = current_bet

\* the turn of the player at current_player_idx, who is not skipped
ActingTurn ==
    /\ pc = "betting"
    /\ ~is_folded[current_player_idx] /\ stack[current_player_idx] # 0

\* C2: every call or raise applied in betting_round takes a non-negative
\* amount of at most the player's stack (min(to_call, stack) for a call),
\* adds the same amount to the player's total_bet_this_round and to the pot,
\* leaves every stack non-negative and sum(stacks) + pot unchanged.
C2_BetsMoveChips ==
    [][ ActingTurn =>
          LET p == current_player_idx
              to_call == current_bet - total_bet_this_round[p]
              taken == stack[p] - stack'[p]
          IN  /\ taken >= 0
              /\ taken <= stack[p]
              /\ (to_call >= 0 /\ TakeTurn(p, "call", -1))
                     => taken = Min(to_call, stack[p])
              /\ total_bet_this_round'[p] = total_bet_this_round[p] + taken
              /\ pot' = pot + taken
              /\ \A q \in Players : stack'[q] >= 0
              /\ SumOver(stack', Players) + pot' = SumOver(stack, Players) + pot
      ]_vars

\* C3: throughout a street current_bet is the highest bet of the street: it
\* equals the maximum total_bet_this_round over all players after the blinds
\* and after every action, so it is never below any player's bet.
C3_CurrentBetIsHighest == InStreet => current_bet = MaxBet

\* C3, its second half: within a street current_bet never decreases.
C3_CurrentBetNeverDecreases ==
    [][ (InStreet /\ InStreet' /\ stage' = stage /\ hand_number' = hand_number)
            => current_bet' >= current_bet ]_vars

\* a hand has just been settled by determine_winner
HandOver == pc = "idle" /\ hand_number > 0

\* p went to the showdown with all chips in, for less than another player
AllInForLess(p) ==
    /\ ~is_folded[p]
    /\ stack[p] - paid[p] = 0
    /\ \E q \in Players : q # p /\ ~is_folded[q] /\ contributed[q] > contributed[p]

\* C4: at showdown a non-folded player who is all-in for less than other
\* players is paid no more than their own contribution plus that same amount
\* from each opponent.
C4_SidePotCapsAllIn ==
    HandOver =>
        \A p \in Players :
            AllInForLess(p) => paid[p] <= contributed[p] * NumPlayers

(***************************************************************************)
(* Properties of the hand evaluator.                                       *)
(***************************************************************************)
Evaluated == hand_info # << >>

RanksIn(cards) == { RankOf(cards[i]) : i \in 1 .. Len(cards) }

\* the number of cards of rank r
Multiplicity(cards, r) == Cardinality({ i \in 1 .. Len(cards) : RankOf(cards[i]) = r })

SameSuit(cards) == \A i, j \in 1 .. Len(cards) : SuitOf(cards[i]) = SuitOf(cards[j])

\* five consecutive ranks, or the wheel A-2-3-4-5
StandardStraight(cards) ==
    \/ \E low \in 0 .. (NumRanks - 5) : RanksIn(cards) = low .. (low + 4)
    \/ RanksIn(cards) = {0, 1, 2, 3, 12}

\* the category of standard poker, 1 (High Card) .. 10 (Royal Flush)
StandardCategory(cards) ==
    LET of_a_kind(n) == { r \in RanksIn(cards) : Multiplicity(cards, r) = n }
    IN  IF SameSuit(cards) /\ RanksIn(cards) = 8 .. 12 THEN 10
        ELSE IF SameSuit(cards) /\ StandardStraight(cards) THEN 9
        ELSE IF of_a_kind(4) # {} THEN 8
        ELSE IF of_a_kind(3) # {} /\ of_a_kind(2) # {} THEN 7
        ELSE IF SameSuit(cards) THEN 6
        ELSE IF StandardStraight(cards) THEN 5
        ELSE IF of_a_kind(3) # {} THEN 4
        ELSE IF Cardinality(of_a_kind(2)) = 2 THEN 3
        ELSE IF Cardinality(of_a_kind(2)) = 1 THEN 2
        ELSE 1

\* C7: for every 5-card hand of distinct cards evaluate_hand returns the
\* standard poker category of the hand, with High Card = 1 .. Royal Flush = 10
\* (a straight is five consecutive ranks or the wheel).
C7_StandardCategory ==
    Evaluated => HAND_RANKS(hand_info.hand_type) = StandardCategory(hand)

\* C7 witness: a wheel of mixed suits has been evaluated as a Straight.
C7_WheelIsStraight ==
    /\ Evaluated
    /\ RanksIn(hand) = {0, 1, 2, 3, 12}
    /\ ~SameSuit(hand)
    /\ hand_info.hand_type = "Straight"

\* C10: evaluate_hand returns Royal Flush exactly for a straight flush whose
\* ranks include the Ace and the Ten; every other straight flush, the wheel
\* of one suit included, is a Straight Flush.
C10_RoyalIffAceAndTen ==
    Evaluated =>
        LET straight_flush == SameSuit(hand) /\ StandardStraight(hand)
            ace_and_ten == 12 \in RanksIn(hand) /\ 8 \in RanksIn(hand)
        IN  /\ hand_info.hand_type = "Royal Flush" <=> (straight_flush /\ ace_and_ten)
            /\ (straight_flush /\ ~ace_and_ten) => hand_info.hand_type = "Straight Flush"

\* C10 witness: the wheel of one suit has been evaluated as a Straight Flush.
C10_WheelFlushIsStraightFlush ==
    /\ Evaluated
    /\ RanksIn(hand) = {0, 1, 2, 3, 12}
    /\ SameSuit(hand)
    /\ hand_info.hand_type = "Straight Flush"

\* the ranks of S, strongest first: more cards of the rank, then higher rank
RECURSIVE ByStrength(_, _)
ByStrength(cards, S) ==
    IF S = {} THEN << >>
    ELSE LET weight(r) == Multiplicity(cards, r) * NumRanks + r
             top == CHOOSE r \in S : \A q \in S : weight(q) <= weight(r)
         IN  << top >> \o ByStrength(cards, S \ {top})

\* what decides between two hands of one category in standard poker: the
\* top card of a straight (the Five for the wheel), otherwise the ranks by
\* strength
StandardKey(cards) ==
    IF RanksIn(cards) = {0, 1, 2, 3, 12} THEN << 3 >>
    ELSE IF StandardStraight(cards)
         THEN << CHOOSE r \in RanksIn(cards) : \A q \in RanksIn(cards) : q <= r >>
         ELSE ByStrength(cards, RanksIn(cards))

Compared == hand_info # << >> /\ other_info # << >>

SameRanks(a, b) == \A r \in 0 .. (NumRanks - 1) : Multiplicity(a, r) = Multiplicity(b, r)

\* C8: for two hands of one category the tiebreakers have equal length, are
\* equal exactly when the hands have the same ranks, and the hand that is
\* stronger in standard poker (straights by top card, the wheel lowest) has
\* the greater tiebreaker.
C8_TiebreakerIsStandardOrder ==
    (Compared /\ hand_info.hand_type = other_info.hand_type) =>
        /\ Len(hand_info.tiebreaker) = Len(other_info.tiebreaker)
        /\ hand_info.tiebreaker = other_info.tiebreaker <=> SameRanks(hand, other_hand)
        /\ TupleGreater(StandardKey(hand), StandardKey(other_hand))
               <=> TupleGreater(hand_info.tiebreaker, other_info.tiebreaker)
        /\ TupleGreater(StandardKey(other_hand), StandardKey(hand))
               <=> TupleGreater(other_info.tiebreaker, hand_info.tiebreaker)

\* the same without the wheel: holds for every other pair of hands
C8_OrderExceptWheel ==
    (/\ Compared
     /\ hand_info.hand_type = other_info.hand_type
     /\ RanksIn(hand) # {0, 1, 2, 3, 12}
     /\ RanksIn(other_hand) # {0, 1, 2, 3, 12}) =>
        /\ Len(hand_info.tiebreaker) = Len(other_info.tiebreaker)
        /\ hand_info.tiebreaker = other_info.tiebreaker <=> SameRanks(hand, other_hand)
        /\ TupleGreater(StandardKey(hand), StandardKey(other_hand))
               <=> TupleGreater(hand_info.tiebreaker, other_info.tiebreaker)
        /\ TupleGreater(StandardKey(other_hand), StandardKey(hand))
               <=> TupleGreater(other_info.tiebreaker, hand_info.tiebreaker)

\* evaluation ia is strictly greater than ib by (category ordinal, tiebreaker)
Stronger(ia, ib) ==
    \/ HAND_RANKS(ia.hand_type) > HAND_RANKS(ib.hand_type)
    \/ /\ HAND_RANKS(ia.hand_type) = HAND_RANKS(ib.hand_type)
       /\ TupleGreater(ia.tiebreaker, ib.tiebreaker)

Found == best_hand # << >>

Dealt == Range(hole_cards) \cup Range(community)

HasRoyal ==
    \E s \in 0 .. (NumSuits - 1) : \A r \in 8 .. 12 : CardOf(r, s) \in Dealt

\* C9: from 2 hole cards and 3 to 5 community cards find_best_hand returns
\* five of those cards with their category, no five of the cards are
\* strictly stronger, and A,K,Q,J,10 of one suit among the cards give Royal
\* Flush.
C9_BestHandIsOptimal ==
    Found =>
        LET best_info == evaluate_hand(best_hand.cards) IN
        /\ Range(best_hand.cards) \subseteq Dealt
        /\ Len(best_hand.cards) = 5
        /\ Cardinality(Range(best_hand.cards)) = 5
        /\ best_hand.hand_type = best_info.hand_type
        /\ \A S \in SUBSET Dealt :
               Cardinality(S) = 5 =>
                   ~Stronger(evaluate_hand(Ascending(S)), best_info)
        /\ HasRoyal => best_hand.hand_type = "Royal Flush"

\* C9 witness: seven cards holding a royal flush, Royal Flush returned.
C9_RoyalAmongSeven ==
    /\ Found
    /\ Cardinality(Dealt) = 7
    /\ HasRoyal
    /\ best_hand.hand_type = "Royal Flush"

(***************************************************************************)
(* Properties of create_side_pots.                                         *)
(***************************************************************************)
RECURSIVE SumAmounts(_)
SumAmounts(pots) ==
    IF pots = << >> THEN 0 ELSE Head(pots).amount + SumAmounts(Tail(pots))

RECURSIVE SumBets(_, _)
SumBets(ps, S) ==
    IF S = {} THEN 0
    ELSE LET i == CHOOSE x \in S : TRUE
         IN  ps[i].total_bet_this_round + SumBets(ps, S \ {i})

NotFolded == { i \in DOMAIN players : ~players[i].is_folded }

\* C5: the amounts of the pots returned by create_side_pots sum to the sum
\* of total_bet_this_round over the non-folded players, and every returned
\* pot has a positive amount.
C5_PotsSumToBets ==
    side_pots.returned =>
        /\ SumAmounts(side_pots.pots) = SumBets(players, NotFolded)
        /\ \A k \in 1 .. Len(side_pots.pots) : side_pots.pots[k].amount > 0

\* C5 witness: pots returned for players of whom one has folded with a bet
\* and two have not folded and bet different amounts.
C5_UnequalBetsAndAFold ==
    /\ side_pots.returned
    /\ \E i \in DOMAIN players :
           players[i].is_folded /\ players[i].total_bet_this_round > 0
    /\ \E i, j \in NotFolded :
           0 < players[i].total_bet_this_round
           /\ players[i].total_bet_this_round < players[j].total_bet_this_round
    /\ Len(side_pots.pots) >= 2

\* the positive bets of the non-folded players
BetLevels == { players[i].total_bet_this_round : i \in NotFolded } \ {0}

\* the non-folded players that bet at least level
AtLeast(level) == { i \in NotFolded : players[i].total_bet_this_round >= level }

\* the greatest level below level, 0 if there is none
LevelBelow(level) ==
    LET below == { l \in BetLevels : l < level }
    IN  IF below = {} THEN 0 ELSE CHOOSE l \in below : \A m \in below : m <= l

\* the level of a pot: the least bet among its eligible players
LevelOf(a_pot) ==
    CHOOSE l \in { players[i].total_bet_this_round : i \in a_pot.eligible_players } :
        \A i \in a_pot.eligible_players : l <= players[i].total_bet_this_round

\* C6: create_side_pots returns one pot per distinct positive bet level of
\* the non-folded players, ascending; the pot of level L has amount
\* (L - level below) * count(non-folded with bet >= L) and eligible set the
\* non-folded players with bet >= L; eligible sets are nested, folded players
\* are in none, equal bets give one pot and no non-folded players no pots.
C6_OnePotPerLevel ==
    side_pots.returned =>
        LET pots == side_pots.pots IN
        /\ Len(pots) = Cardinality(BetLevels)
        /\ \A k \in 1 .. Len(pots) :
               /\ pots[k].eligible_players # {}
               /\ LevelOf(pots[k]) \in BetLevels
               /\ pots[k].eligible_players = AtLeast(LevelOf(pots[k]))
               /\ pots[k].amount =
                      (LevelOf(pots[k]) - LevelBelow(LevelOf(pots[k])))
                          * Cardinality(AtLeast(LevelOf(pots[k])))
               /\ \A i \in pots[k].eligible_players : ~players[i].is_folded
        /\ \A k \in 1 .. (Len(pots) - 1) :
               /\ LevelOf(pots[k]) < LevelOf(pots[k + 1])
               /\ pots[k + 1].eligible_players \subseteq pots[k].eligible_players
        /\ Cardinality(BetLevels) = 1 => Len(pots) = 1
        /\ NotFolded = {} => pots = << >>
        /\ (/\ DOMAIN players = 0 .. 3
            /\ \A i \in 0 .. 3 : ~players[i].is_folded
            /\ [i \in 0 .. 3 |-> players[i].total_bet_this_round]
                   = [i \in 0 .. 3 |-> CASE i = 0 -> 1 [] i = 1 -> 3
                                           [] i = 2 -> 4 [] i = 3 -> 5])
           => [k \in 1 .. Len(pots) |-> pots[k].amount] = << 4, 6, 2, 1 >>

\* C6 witness: bets 1, 3, 4, 5 (50, 150, 200, 250 in units of 50) of four
\* non-folded players have given pots of 4, 6, 2, 1.
C6_FourLevels ==
    /\ side_pots.returned
    /\ DOMAIN players = 0 .. 3
    /\ \A i \in 0 .. 3 : ~players[i].is_folded
    /\ players[0].total_bet_this_round = 1
    /\ players[1].total_bet_this_round = 3
    /\ players[2].total_bet_this_round = 4
    /\ players[3].total_bet_this_round = 5
    /\ Len(side_pots.pots) = 4
    /\ side_pots.pots[1].amount = 4
    /\ side_pots.pots[4].eligible_players = {3}

(***************************************************************************)
(* Properties of a trial of the Monte Carlo estimator.                     *)
(***************************************************************************)
Classified == trial.classified

\* evaluation a is strictly greater than b by (rank, tiebreaker)
EvalGreater(a, b) ==
    \/ a.rank > b.rank
    \/ a.rank = b.rank /\ TupleGreater(a.tiebreaker, b.tiebreaker)

\* the subject's evaluation is strictly greater than every opponent's
BeatsAll ==
    \A i \in 1 .. Len(trial.opponents) :
        EvalGreater(trial.player, trial.opponents[i])

\* the subject's evaluation equals the greatest opponent evaluation
TiesBest ==
    /\ \E i \in 1 .. Len(trial.opponents) : trial.opponents[i] = trial.player
    /\ \A i \in 1 .. Len(trial.opponents) :
           ~EvalGreater(trial.opponents[i], trial.player)

\* C11: a trial of calculate_win_probability is a win exactly when the
\* subject's evaluation is strictly greater than every opponent's, a tie
\* exactly when it equals the greatest opponent evaluation, a loss otherwise.
C11_TrialClassifiedByBest ==
    Classified =>
        /\ trial.simulated = "win" <=> BeatsAll
        /\ trial.simulated = "tie" <=> TiesBest
        /\ trial.simulated = "loss" <=> (~BeatsAll /\ ~TiesBest)

\* the same against one opponent only
C11_HoldsHeadsUp ==
    (Classified /\ Len(trial.opponents) = 1) =>
        /\ trial.simulated = "win" <=> BeatsAll
        /\ trial.simulated = "tie" <=> TiesBest
        /\ trial.simulated = "loss" <=> (~BeatsAll /\ ~TiesBest)

\* C14: on the same hole cards, board and opponent hole cards
\* calculate_vs_specific_hands and calculate_win_probability give the trial
\* the same outcome.
C14_SameOutcome ==
    Classified => trial.simulated = trial.specific

\* calculate_vs_specific_hands classifies every trial by the best opponent
C14_SpecificClassifiedByBest ==
    Classified =>
        /\ trial.specific = "win" <=> BeatsAll
        /\ trial.specific = "tie" <=> TiesBest
        /\ trial.specific = "loss" <=> (~BeatsAll /\ ~TiesBest)

(***************************************************************************)
(* calculate_win_probability                                               *)
(***************************************************************************)
InvalidArguments ==
    \/ Len(hole_cards) # 2
    \/ Len(community) \notin { 0, 3, 4, 5 }
    \/ num_opponents < 1
    \/ \E i \in 1 .. Len(hole_cards) : \E j \in 1 .. Len(community) :
          hole_cards[i] = community[j]

\* C12: whenever the hole-card count is not 2, the community-card count is
\* not 0, 3, 4 or 5, there is no opponent, or a card is both a hole card and
\* a community card, the only thing calculate_win_probability does is raise
\* a ValueError: no trial has run, no counter has changed and nothing is
\* returned.
C12_InvalidArgumentsRaise ==
    [][InvalidArguments =>
         /\ result.status = "not called"
         /\ result'.status = "raised"
         /\ result'.error = "ValueError"
         /\ simulations_run' = 0
         /\ << wins', ties', losses' >> = << wins, ties, losses >>]_vars

C12_RaisedOnDuplicate ==
    /\ result.status = "raised"
    /\ Len(hole_cards) = 2
    /\ Len(community) \in { 3, 4, 5 }
    /\ num_opponents >= 1
    /\ hole_cards[2] = community[1]

One == FromInt(1)

ProbabilitySum ==
    FAdd(FAdd(result.win_prob, result.tie_prob), result.lose_prob)

CountsSum ==
    /\ result.status = "running" => wins + ties + losses = simulations_run
    /\ result.status = "returned" =>
          /\ << result.wins, result.ties, result.losses >> = << wins, ties, losses >>
          /\ wins + ties + losses = num_simulations

\* C13 as stated: every trial is counted once, so the returned counts add up
\* to num_simulations, and the returned win_prob + tie_prob + lose_prob is
\* exactly 1.
C13_ProbabilitiesSumToOne ==
    /\ CountsSum
    /\ result.status = "returned" => ProbabilitySum = One

RoundingBits == 40

\* 2^-RoundingBits
Rounding == [i \in 1 .. (FracBits - RoundingBits + 1) |->
               IF i = FracBits - RoundingBits + 1 THEN 1 ELSE 0]

Near(x, y) == LessEq(x, AddBits(y, Rounding)) /\ LessEq(y, AddBits(x, Rounding))

\* C13: every trial is counted once, so the returned counts add up to
\* num_simulations, and the returned win_prob + tie_prob + lose_prob is 1 up
\* to the rounding of the float divisions and additions, less than
\* 2^-RoundingBits away from 1.
C13_ProbabilitiesSumNearOne ==
    /\ CountsSum
    /\ result.status = "returned" => Near(ProbabilitySum, One)

C13_SumRoundedBelowOne ==
    /\ result.status = "returned"
    /\ ProbabilitySum # One
    /\ wins + ties + losses = num_simulations

EquityFormula ==
    FAdd(result.win_prob, FDiv(result.tie_prob, num_opponents + 1))

EquityScaled == FMul(FMul(result.equity, num_simulations), num_opponents + 1)

EquityCounts == FromInt(wins * (num_opponents + 1) + ties)

CanAct(p) == ~is_folded[p] /\ stack[p] > 0

\* the first player who can act, scanning the seats cyclically from start
FirstFrom(start) ==
    LET k == CHOOSE i \in 0 .. (NumPlayers - 1) :
                 /\ CanAct((start + i) % NumPlayers)
                 /\ \A j \in 0 .. (i - 1) : ~CanAct((start + j) % NumPlayers)
    IN  (start + k) % NumPlayers

\* where the scan for the next player to act starts
ScanStart ==
    IF last_to_act # -1 THEN (last_to_act + 1) % NumPlayers
    ELSE IF stage = "Pre-Flop" THEN (button + 3) % NumPlayers
    ELSE (button + 1) % NumPlayers

\* C16: whenever betting_round asks a player to act, it is the first player
\* neither folded nor without chips found scanning the seats cyclically, from
\* (button + 3) mod n on Pre-Flop and (button + 1) mod n on another street
\* for the first action of the round, and from the seat after the player who
\* acted last for every later action.
C16_TurnOrder ==
    (pc = "betting" /\ CanAct(current_player_idx)) =>
        current_player_idx = FirstFrom(ScanStart)

C16_TurnPassedOverPlayer ==
    /\ pc = "betting"
    /\ CanAct(current_player_idx)
    /\ last_to_act # -1
    /\ current_player_idx # (last_to_act + 1) % NumPlayers

\* C17: in a betting round no step changes the stack, total_bet_this_round
\* or is_folded of a player who is folded or without chips; when such a
\* player is the current one the step only moves current_player_idx to the
\* next seat; and a folded player is unfolded by nothing but the start of the
\* next hand.
C17_SkippedPlayersUntouched ==
    [][/\ pc = "betting" =>
             \A p \in Players : (is_folded[p] \/ stack[p] = 0) =>
                 /\ stack'[p] = stack[p]
                 /\ total_bet_this_round'[p] = total_bet_this_round[p]
                 /\ is_folded'[p] = is_folded[p]
       /\ (/\ pc = "betting"
           /\ is_folded[current_player_idx] \/ stack[current_player_idx] = 0) =>
             /\ current_player_idx' = (current_player_idx + 1) % NumPlayers
             /\ UNCHANGED << stack, total_bet_this_round, is_folded, pot,
                             current_bet, players_who_acted_this_level, pc,
                             button, stage, community_cards, hand_number >>
       /\ \A p \in Players : (is_folded[p] /\ ~is_folded'[p]) =>
             /\ pc = "idle"
             /\ hand_number' = hand_number + 1]_vars

C17_SkippedAtStartOfStreet ==
    /\ pc = "betting"
    /\ stage # "Pre-Flop"
    /\ last_to_act = -1
    /\ current_player_idx # (button + 1) % NumPlayers

\* the stack a player had when the hand that has just ended started
StackAtStart(p) == stack[p] - paid[p] + contributed[p]

\* C18: when a hand has ended, a player whose stack was 0 when it started
\* was paid nothing by determine_winner and still has no chips.
C18_ZeroStackSitsOut ==
    (pc = "idle" /\ hand_number >= 1) =>
        \A p \in Players : StackAtStart(p) = 0 => (paid[p] = 0 /\ stack[p] = 0)

\* C19: the step that ends play_hand, after a betting round of any street,
\* moves the button to the next seat mod the number of players and leaves the
\* pot at 0, and no other step of the hand moves the button.
C19_ButtonAdvancesPotEmptied ==
    [][/\ (pc # "idle" /\ pc' = "idle") =>
             /\ button' = (button + 1) % NumPlayers
             /\ pot' = 0
       /\ button' # button => (pc # "idle" /\ pc' = "idle")]_vars

C19_EndedByFoldsOnTurn ==
    /\ pc = "idle"
    /\ hand_number = 1
    /\ stage = "Turn"
    /\ Cardinality({ p \in Players : ~is_folded[p] }) = 1
    /\ button = 1
    /\ pot = 0

\* C20: the step between two streets of a hand sets every player's
\* total_bet_this_round and current_bet to 0 and leaves the pot, the stacks
\* and the folded flags as they are; the community cards change only by the
\* deal of the next street, three cards for the Flop and one for the Turn and
\* the River.
C20_ResetBetweenStreets ==
    [][(pc = "settled" /\ pc' # "idle") =>
           /\ stage' # stage
           /\ \A p \in Players : total_bet_this_round'[p] = 0
           /\ current_bet' = 0
           /\ pot' = pot
           /\ stack' = stack
           /\ is_folded' = is_folded
           /\ community_cards' = community_cards + (IF stage = "Pre-Flop" THEN 3 ELSE 1)]_vars

C20_ResetAfterBets ==
    /\ stage = "Flop"
    /\ pot > SmallBlind + BigBlind
    /\ current_bet = 0
    /\ last_to_act = -1
    /\ community_cards = 3

(***************************************************************************)
(* Deck                                                                    *)
(***************************************************************************)
\* the step is a call of deal
DealCalled == dealt_cards' # dealt_cards \/ num_cards' # num_cards \/ dealt' # dealt

\* C21: deal(n) with n greater than the number of cards left raises an error
\* and leaves the deck as it is; with 0 <= n <= the number of cards left it
\* returns the first n cards in deck order and the deck keeps the other
\* cards, n fewer, in their order.
C21_DealTakesFirstCards ==
    [][DealCalled =>
         IF num_cards' > Len(deck_cards)
         THEN /\ dealt_cards'.status = "raised"
              /\ deck_cards' = deck_cards
         ELSE /\ dealt_cards'.status = "returned"
              /\ Len(dealt_cards'.cards) = num_cards'
              /\ Len(deck_cards') = Len(deck_cards) - num_cards'
              /\ deck_cards = dealt_cards'.cards \o deck_cards']_vars

C21_DealRefusedAfterDeals ==
    /\ dealt_cards.status = "raised"
    /\ dealt # << >>
    /\ deck_cards # << >>
    /\ num_cards > Len(deck_cards)

\* C22: after any shuffles and deals the cards dealt so far and the cards
\* left in the deck are the 52 cards, each once, so the cards dealt from one
\* deck (the hole cards and community cards of a hand) are all different.
C22_FiftyTwoDistinctCards ==
    LET all == dealt \o deck_cards
    IN  /\ Len(all) = NumRanks * NumSuits
        /\ { << RankOf(all[i]), SuitOf(all[i]) >> : i \in 1 .. Len(all) }
             = (0 .. (NumRanks - 1)) \X (0 .. (NumSuits - 1))
        /\ \A i, j \in 1 .. Len(dealt) : i # j => dealt[i] # dealt[j]

\* two hole cards for each player, the flop, the turn and the river
C22_HandDealt ==
    /\ Len(dealt) = 2 * NumPlayers + 5
    /\ shuffles = 1
    /\ num_cards = 1


\* the player whose turn it is is an AI that owes chips it can pay: its turn
\* calls ai_decision, which calls find_best_hand with the player's two hole
\* cards and the community cards
AiEvaluatesHand ==
    /\ pc = "betting"
    /\ ~CannotAct(current_player_idx)
    /\ is_ai[current_player_idx]
    /\ current_bet - total_bet_this_round[current_player_idx] # 0
    /\ current_bet - total_bet_this_round[current_player_idx]
          <= stack[current_player_idx]

\* C25: during play find_best_hand is only called with at least 3 community
\* cards: no turn of an AI player, on the Pre-Flop street or later, calls it
\* with fewer than 5 cards in total.
C25_BestHandOfFiveCardsOrMore ==
    [][AiEvaluatesHand /\ AiTurn => community_cards >= 3 /\ 2 + community_cards >= 5]_vars

\* C28: play_hand conserves chips: after every hand the stacks sum to what
\* they summed to before it, and the amounts determine_winner pays out, to
\* one winner or to several tied winners, sum to exactly the pot.
C28_ChipsConserved ==
    pc = "idle" /\ hand_number >= 1 =>
        /\ SumOver(paid, Players) = SumOver(contributed, Players)
        /\ SumOver(stack, Players) = NumPlayers * StartingStack

\* only AI players are asked from here to the end of the betting round: the
\* others have folded or have no chips
OnlyAiCanAct == \A p \in Players : is_ai[p] \/ CannotAct(p)

\* C27: every betting round terminates: once the loop of betting_round is
\* entered the round reaches its settled state after finitely many turns,
\* also with a player all-in below current_bet and two others with chips.
\* Stated from the turns on at which only AI players are left to be asked,
\* whose answers are always one of fold, check, call and raise.
C27_BettingRoundTerminates ==
    (pc = "betting" /\ OnlyAiCanAct) ~> (pc = "settled")

(***************************************************************************)
(* Properties of determine_winner.                                         *)
(***************************************************************************)
WinnerDetermined == winner_info.status # "not called"

Unfolded == ActiveUnfolded(is_folded)

\* the evaluations of the five-card hands among p's hole cards and the
\* community cards
Evaluations(p) ==
    { evaluate_hand(Ascending(S)) :
         S \in { T \in SUBSET (Range(players_hole_cards[p]) \cup Range(community)) :
                    Cardinality(T) = 5 } }

\* the greatest of them by (category ordinal, tiebreaker)
BestOf(p) ==
    CHOOSE best \in { CHOOSE e \in E : \A f \in E : ~Stronger(f, e) :
                         E \in { Evaluations(p) } } : TRUE

\* the players that have not folded and that no such player beats
Strongest ==
    CHOOSE S \in { { p \in Unfolded : \A q \in Unfolded : ~Stronger(best[q], best[p]) } :
                      best \in { [p \in Players |-> BestOf(p)] } } : TRUE

\* C29: determine_winner returns; a folded player is paid nothing; a single
\* player that has not folded gets the whole pot and no hand is compared;
\* otherwise the winners are exactly the players that have not folded whose
\* best hand is greatest by (category ordinal, tiebreaker), whatever their
\* seats, and only they are paid, each at least an equal share of the pot.
C29_OnlyStrongestUnfoldedPaid ==
    WinnerDetermined =>
        /\ winner_info.status = "returned"
        /\ \A p \in Players :
               /\ stack[p] = StartingStack - contributed[p] + paid[p]
               /\ is_folded[p] => paid[p] = 0
        /\ Cardinality(Unfolded) = 1 =>
               /\ winner_info.hand_type = "Opponents Folded"
               /\ \A p \in Unfolded : paid[p] = pot
        /\ Cardinality(Unfolded) > 1 =>
               \E strongest \in { Strongest } :
                   /\ Range(winner_info.winners) = strongest
                   /\ Len(winner_info.winners) = Cardinality(strongest)
                   /\ \A p \in Players \ strongest : paid[p] = 0
                   /\ \A p \in strongest : paid[p] >= pot \div Cardinality(strongest)

\* C29 witness: the player in seat 0 has folded three kings, the two others
\* tie with ace high and share the pot.
C29_FoldedBestHandUnpaid ==
    /\ WinnerDetermined
    /\ is_folded[0]
    /\ Unfolded = { 1, 2 }
    /\ Strongest = { 1, 2 }
    /\ \A p \in Unfolded : Stronger(BestOf(0), BestOf(p))
    /\ winner_info.winners = << 1, 2 >>
    /\ paid[0] = 0 /\ paid[1] > 0 /\ paid[2] > 0

(***************************************************************************)
(* Properties of PokerUI.betting_round.                                    *)
(***************************************************************************)
\* one iteration of the loop of PokerUI.betting_round
UiIteration == pc = "betting" /\ gameVars' # gameVars

\* C26: every iteration of PokerUI.betting_round is the iteration of
\* PokerGame.betting_round from the same state with the same decision: a
\* player that cannot act is passed over, else the player at
\* current_player_idx is asked and the stacks, bets, pot, current_bet, folded
\* flags, the players that must still act and the end of the round are those
\* of the game's turn for that decision.
C26_UiRoundIsGameRound ==
    [][UiIteration =>
          IF CannotAct(current_player_idx)
          THEN /\ current_player_idx' = (current_player_idx + 1) % NumPlayers
               /\ UNCHANGED << stack, total_bet_this_round, is_folded, pot,
                               current_bet, pc, players_who_acted_this_level >>
          ELSE /\ ui'.decision.player = current_player_idx
               /\ GameTurn(current_player_idx, ui'.decision.action,
                           ui'.decision.typed)]_vars

(***************************************************************************)
(* Properties of PokerBot.decide_action.                                   *)
(***************************************************************************)
Decided == decision.status # "not called"

AllIn == situation.to_call > situation.player_stack

\* C23: when to_call > stack, decide_action returns call if the estimated
\* equity is greater than 0.40 and fold otherwise, never check or raise and
\* never a raise amount; with fewer than one opponent the equity used is
\* 0.5, so the bot calls.
C23_AllInCallsAboveForty ==
    Decided /\ AllIn =>
        /\ decision.status = "returned"
        /\ decision.raise_amount = {}
        /\ decision.action =
              IF Below(Percent[40], bot_equity.value) THEN "call" ELSE "fold"
        /\ num_opponents < 1 =>
              bot_equity.value = Percent[50] /\ decision.action = "call"

\* an all-in decision on an estimate of exactly 400 wins in 1000: a fold
C23_AllInFoldsAtForty ==
    /\ Decided /\ AllIn
    /\ bot_equity.estimator = "returned"
    /\ bot_equity.value = Percent[40]
    /\ decision.action = "fold"

\* the estimator would refuse the arguments
EstimatorFails == ValidationError(hole_cards, community, num_opponents) # ""

\* one of fold, check, call, raise; a raise amount exactly when the action
\* is raise; check only when to_call == 0, and only check or raise then
ValidAction ==
    /\ decision.status = "returned"
    /\ decision.action \in { "fold", "check", "call", "raise" }
    /\ Cardinality(decision.raise_amount) = (IF decision.action = "raise" THEN 1 ELSE 0)
    /\ decision.action = "check" => situation.to_call = 0
    /\ situation.to_call = 0 => decision.action \in { "check", "raise" }

\* C24 as stated: decide_action always returns a valid action, and whenever
\* the estimator fails on the arguments (community count, duplicate cards,
\* opponents < 1) the equity used is the rank-based fallback.
C24_ValidActionFallbackWheneverEstimatorFails ==
    Decided =>
        /\ ValidAction
        /\ EstimatorFails =>
              bot_equity.value = simple_hand_strength(hole_cards, community)

\* C24: decide_action always returns a valid action and no exception; with
\* one opponent or more a failure of the estimator is caught and replaced by
\* the rank-based fallback; with fewer than one opponent the estimator is
\* not called and the equity used is 0.5.
C24_ValidActionFallbackOrHalf ==
    Decided =>
        /\ ValidAction
        /\ num_opponents >= 1 /\ EstimatorFails =>
              /\ bot_equity.estimator = "raised"
              /\ bot_equity.value = simple_hand_strength(hole_cards, community)
        /\ num_opponents < 1 =>
              /\ bot_equity.estimator = "not called"
              /\ bot_equity.value = Percent[50]

\* a raise decided on the fallback after the estimator refused a community
\* card that is also a hole card
C24_RaiseOnFallback ==
    /\ Decided
    /\ num_opponents >= 1
    /\ Len(community) = 3
    /\ EstimatorFails
    /\ bot_equity.estimator = "raised"
    /\ decision.action = "raise"

\* the decisions decide_action can return in the position, everything else
\* as in the state
DecisionsIn(position) ==
    { decide_action(bot, [situation EXCEPT !.position = position], hole_cards,
                    community, num_opponents, bot_equity, random) :
          random \in Randoms }

\* C30: for a fixed bot type the fold threshold does not increase from early
\* to middle to late, and whenever decide_action, with 0 < to_call <= stack,
\* folds in late position for equity below the threshold it also folds in
\* early position with the same inputs.
C30_LooserInLatePosition ==
    ( /\ Decided
      /\ situation.position = "late"
      /\ 0 < situation.to_call
      /\ situation.to_call <= situation.player_stack
      /\ decision.action = "fold"
      /\ Below(bot_equity.value, FoldThresholds[bot, "late"]) )
    => /\ LessEq(FoldThresholds[bot, "late"], FoldThresholds[bot, "middle"])
       /\ LessEq(FoldThresholds[bot, "middle"], FoldThresholds[bot, "early"])
       /\ \A early \in DecisionsIn("early") : early.action = "fold"

====
